---- MODULE Spec2Model ----
(***************************************************************************)
(* Verification model of the ByteMeCarbon rewrite pipeline (optimizer.py   *)
(* and rules/*.py).  Programs are Python syntax trees, represented as      *)
(* records with a kind field k.  Every ast.NodeTransformer of the source   *)
(* is a transformer record t with a class name t.cls; Visit dispatches on  *)
(* (t.cls, node.k) as ast.NodeTransformer.visit dispatches on visit_<k>.   *)
(* A statement visitor returns a sequence of statements: <<>> for None     *)
(* (delete), <<n>> for a node, and the list itself when the method         *)
(* returns a list (the parent block splices it).                           *)
(***************************************************************************)
EXTENDS Integers, Sequences, FiniteSets, TLC

VARIABLES
    tree,           \* the tree owned by the running operation
    orig,           \* the tree as it was handed to the operation
    prev,           \* the tree before the pass that ran last
    pc,             \* position of the running operation
    remove_unused,  \* optimize's option
    root,           \* project root given to the project-wide scan
    fs,             \* the files below root: records (dir, name, ok, body)
    used_names,     \* the UsageSet handed to UnusedImportRemover
    args,           \* argument values of an executed call
    ret             \* results of executing the original / rewritten function

vars == <<tree, orig, prev, pc, remove_unused, root, fs, used_names, args, ret>>

(***************************************************************************)
(* Tree model: expressions                                                 *)
(***************************************************************************)
Absent == [k |-> "Absent"]      \* an optional child that is None
Name(id) == [k |-> "Name", id |-> id]
Num(n) == [k |-> "Constant", ty |-> "int", v |-> n, s |-> ""]
Str(s) == [k |-> "Constant", ty |-> "str", v |-> 0, s |-> s]
True == [k |-> "Constant", ty |-> "bool", v |-> 1, s |-> ""]
False == [k |-> "Constant", ty |-> "bool", v |-> 0, s |-> ""]
None == [k |-> "Constant", ty |-> "none", v |-> 0, s |-> ""]
BinOp(l, op, r) == [k |-> "BinOp", left |-> l, op |-> op, right |-> r]
BoolOp(op, vs) == [k |-> "BoolOp", op |-> op, values |-> vs]
UnaryOp(op, e) == [k |-> "UnaryOp", op |-> op, operand |-> e]
Compare(l, op, r) == [k |-> "Compare", left |-> l, ops |-> <<op>>, comparators |-> <<r>>]
Keyword(a, e) == [arg |-> a, value |-> e]
Call(f, as, kws) == [k |-> "Call", func |-> f, args |-> as, keywords |-> kws]
Attribute(e, a) == [k |-> "Attribute", value |-> e, attr |-> a]
Subscript(e, i) == [k |-> "Subscript", value |-> e, slice |-> i]
List(es) == [k |-> "List", elts |-> es]
Tuple(es) == [k |-> "Tuple", elts |-> es]
Starred(e) == [k |-> "Starred", value |-> e]
ListComp(e, tg, it) == [k |-> "ListComp", elt |-> e, target |-> tg, iter |-> it]

(***************************************************************************)
(* Tree model: statements                                                  *)
(***************************************************************************)
Pass == [k |-> "Pass"]
Continue == [k |-> "Continue"]
Return(e) == [k |-> "Return", value |-> e]
Expr(e) == [k |-> "Expr", value |-> e]
Assign(ts, e) == [k |-> "Assign", targets |-> ts, value |-> e]
AugAssign(tg, op, e) == [k |-> "AugAssign", target |-> tg, op |-> op, value |-> e]
If(c, b, o) == [k |-> "If", test |-> c, body |-> b, orelse |-> o]
While(c, b, o) == [k |-> "While", test |-> c, body |-> b, orelse |-> o]
For(tg, it, b, o) == [k |-> "For", target |-> tg, iter |-> it, body |-> b, orelse |-> o]
FunctionDef(n, ps, b, ds) ==
    [k |-> "FunctionDef", name |-> n, params |-> ps, body |-> b, decorator_list |-> ds]
\* params is node.args.args; a definition with parameters after `*` also
\* has node.args.kwonlyargs
FunctionDefKw(n, ps, kws, b, ds) ==
    [k |-> "FunctionDef", name |-> n, params |-> ps, kwonlyargs |-> kws, body |-> b,
     decorator_list |-> ds]
KwOnly(node) == IF "kwonlyargs" \in DOMAIN node THEN node.kwonlyargs ELSE <<>>
ClassDef(n, b) == [k |-> "ClassDef", name |-> n, body |-> b]
Alias(n, a) == [name |-> n, asname |-> a]
Import(ns) == [k |-> "Import", names |-> ns]
ImportFrom(m, ns) == [k |-> "ImportFrom", module |-> m, names |-> ns]
Module(b) == [k |-> "Module", body |-> b]
\* an exception that left a visitor method; it aborts the pass
Raised(exc) == [k |-> "Raised", exc |-> exc]

NoName == "<None>"      \* alias.asname / keyword.arg that is None

IsTrue(e) == e.k = "Constant" /\ e.ty = "bool" /\ e.v = 1
IsFalse(e) == e.k = "Constant" /\ e.ty = "bool" /\ e.v = 0

RECURSIVE Concat(_)
Concat(ss) == IF ss = <<>> THEN <<>> ELSE Head(ss) \o Concat(Tail(ss))

(***************************************************************************)
(* ast.iter_fields: a field holds a list of statements, a list of          *)
(* expressions, one expression, the keywords of a call, or no node at all  *)
(***************************************************************************)
StmtListFields == {"body", "orelse"}
ExprListFields == {"decorator_list", "targets", "values", "comparators", "args", "elts"}
ExprFields ==
    {"test", "target", "iter", "value", "left", "right", "operand", "func", "slice", "elt"}
Fields ==
    <<"targets", "target", "test", "iter", "left", "values", "operand", "comparators",
      "right", "func", "args", "keywords", "elts", "elt", "value", "slice",
      "body", "orelse", "decorator_list">>

(***************************************************************************)
(* ast.walk: all nodes of a subtree, as a sequence                         *)
(***************************************************************************)
RECURSIVE Walk(_)
WalkField(f, v) ==
    IF f \in ExprFields THEN Walk(v)
    ELSE IF f = "keywords" THEN Concat([i \in 1..Len(v) |-> Walk(v[i].value)])
    ELSE Concat([i \in 1..Len(v) |-> Walk(v[i])])

Walk(node) ==
    <<node>> \o Concat([i \in 1..Len(Fields) |->
                  IF Fields[i] \in DOMAIN node THEN WalkField(Fields[i], node[Fields[i]])
                  ELSE <<>>])

(***************************************************************************)
(* analyzer.py and rules/unused_functions.py: the two collectors           *)
(***************************************************************************)
\* a visitor that only looks: some / every walked node satisfies P
AnyNode(w, P(_)) == \E i \in DOMAIN w : P(w[i])
EveryNode(w, P(_)) == \A i \in DOMAIN w : P(w[i])

NameCollector_visit_Name(w) == {w[i].id : i \in {j \in DOMAIN w : w[j].k = "Name"}}

collect_used_names(t) == NameCollector_visit_Name(Walk(t))

FunctionCallCollector_visit_Call(w) ==
    {w[i].func.id : i \in {j \in DOMAIN w : w[j].k = "Call" /\ w[j].func.k = "Name"}}

collect_called_functions(t) == FunctionCallCollector_visit_Call(Walk(t))

(***************************************************************************)
(* ast.NodeTransformer: visit dispatches to the class's visit_<kind>       *)
(* method, generic_visit rebuilds a node from its visited children.        *)
(***************************************************************************)
Transformer(cls) == [cls |-> cls, names |-> {}]
TransformerWith(cls, names) == [cls |-> cls, names |-> names]

RECURSIVE VisitStmt(_, _), VisitExpr(_, _)
VisitField(t, f, v) ==
    CASE f \in StmtListFields -> Concat([i \in 1..Len(v) |-> VisitStmt(t, v[i])])
      [] f \in ExprListFields -> [i \in 1..Len(v) |-> VisitExpr(t, v[i])]
      [] f \in ExprFields -> VisitExpr(t, v)
      [] f = "keywords" ->
            [i \in 1..Len(v) |-> [v[i] EXCEPT !.value = VisitExpr(t, v[i].value)]]
      [] OTHER -> v

\* generic_visit: every field that holds nodes is replaced by what visit returns
generic_visit(t, node) == [f \in DOMAIN node |-> VisitField(t, f, node[f])]

(***************************************************************************)
(* rules/constant_folding.py                                               *)
(***************************************************************************)
RECURSIVE Repeat(_, _)
Repeat(str, n) == IF n <= 0 THEN "" ELSE str \o Repeat(str, n - 1)

Numeric(c) == c.ty \in {"int", "bool"}
Failed == [ok |-> FALSE, value |-> None]
Value(c) == [ok |-> TRUE, value |-> c]

\* Python's value of `l <op> r` for two literal operands; an exception is
\* ok = FALSE (ZeroDivisionError, TypeError)
PyBinOp(op, l, r) ==
    CASE Numeric(l) /\ Numeric(r) /\ op = "Add" -> Value(Num(l.v + r.v))
      [] Numeric(l) /\ Numeric(r) /\ op = "Sub" -> Value(Num(l.v - r.v))
      [] Numeric(l) /\ Numeric(r) /\ op = "Mult" -> Value(Num(l.v * r.v))
      [] Numeric(l) /\ Numeric(r) /\ op = "FloorDiv" ->
            IF r.v = 0 THEN Failed ELSE Value(Num(l.v \div r.v))
      [] Numeric(l) /\ Numeric(r) /\ op = "Mod" ->
            IF r.v = 0 THEN Failed ELSE Value(Num(l.v % r.v))
      [] l.ty = "str" /\ r.ty = "str" /\ op = "Add" -> Value(Str(l.s \o r.s))
      [] l.ty = "str" /\ Numeric(r) /\ op = "Mult" -> Value(Str(Repeat(l.s, r.v)))
      [] Numeric(l) /\ r.ty = "str" /\ op = "Mult" -> Value(Str(Repeat(r.s, l.v)))
      [] OTHER -> Failed

\* eval(compile(ast.Expression(node), ...)): compile raises TypeError when an
\* operand carries no source location, which is the case exactly for the
\* ast.Constant nodes this pass has created itself (line 31); the operands
\* of the parsed tree all carry one.
compile_eval(n, located) ==
    IF located THEN PyBinOp(n.op, n.left, n.right) ELSE Failed

\* the fold with the failure of the evaluation not looked at
ConstantFolder_fold_unchecked(node, n) ==
    IF n.left.k = "Constant" /\ n.right.k = "Constant"
    THEN PyBinOp(n.op, n.left, n.right).value
    ELSE n

\* visit_BinOp after its generic_visit: n is the node with visited children
ConstantFolder_fold(node, n) ==
    LET located == node.left.k = "Constant" /\ node.right.k = "Constant"
    IN  IF n.left.k = "Constant" /\ n.right.k = "Constant"
        THEN LET r == compile_eval(n, located) IN IF r.ok THEN r.value ELSE n
        ELSE n

ConstantFolder_visit_BinOp(t, node) == ConstantFolder_fold(node, generic_visit(t, node))

(***************************************************************************)
(* rules/dead_code.py                                                      *)
(***************************************************************************)
\* the splice deciding by the truth value of the literal, as `if value:` would
DeadCodeRemover_splice_truthy(n) ==
    IF n.test.k = "Constant"
    THEN IF n.test.v # 0 THEN n.body ELSE n.orelse
    ELSE <<n>>

\* visit_If after its generic_visit
DeadCodeRemover_splice(n) ==
    IF n.test.k = "Constant"
    THEN IF IsTrue(n.test) THEN n.body
         ELSE IF IsFalse(n.test) THEN n.orelse
         ELSE <<n>>
    ELSE <<n>>

DeadCodeRemover_visit_If(t, node) == DeadCodeRemover_splice(generic_visit(t, node))

(***************************************************************************)
(* rules/unused_imports.py                                                 *)
(* alias.name is the sequence of the components of the dotted name; a      *)
(* string with a dot in it is the id of no Name node.                      *)
(***************************************************************************)
InNames(dotted, names) == Len(dotted) = 1 /\ dotted[1] \in names

UnusedImportRemover_new_names(t, node) ==
    SelectSeq(node.names,
              LAMBDA alias : alias.asname \in t.names \/ InNames(alias.name, t.names))

UnusedImportRemover_visit_Import(t, node) ==
    LET new_names == UnusedImportRemover_new_names(t, node)
    IN  IF new_names # <<>> THEN <<[node EXCEPT !.names = new_names]>> ELSE <<>>

UnusedImportRemover_visit_ImportFrom(t, node) ==
    LET new_names == UnusedImportRemover_new_names(t, node)
    IN  IF new_names # <<>> THEN <<[node EXCEPT !.names = new_names]>> ELSE <<>>

(***************************************************************************)
(* rules/unused_functions.py and the _APIRemover of remove_unused_apis.py  *)
(***************************************************************************)
\* the remover looking at the names the function itself calls
UnusedFunctionRemover_visit_FunctionDef_own(t, node) ==
    IF node.name \in t.names \cap collect_called_functions(node) THEN <<node>> ELSE <<>>

UnusedFunctionRemover_visit_FunctionDef(t, node) ==
    IF node.name \in t.names THEN <<node>> ELSE <<>>

APIRemover_visit_FunctionDef(t, node) ==
    UnusedFunctionRemover_visit_FunctionDef(
        TransformerWith("UnusedFunctionRemover", t.names), node)

APIRemover_visit_ClassDef(t, node) ==
    IF node.name \in t.names THEN <<node>> ELSE <<>>

(***************************************************************************)
(* rules/loop_optimization.py                                              *)
(***************************************************************************)
LoopOptimizer_check_index_only_usage(body, loop_var, iterable) == FALSE

LoopOptimizer_get_item_name(iterable) == "item"

LoopOptimizer_optimize_range_len(node) ==
    IF /\ node.iter.k = "Call"
       /\ node.iter.func.k = "Name" /\ node.iter.func.id = "range"
       /\ Len(node.iter.args) = 1
       /\ node.iter.args[1].k = "Call"
       /\ node.iter.args[1].func.k = "Name" /\ node.iter.args[1].func.id = "len"
       /\ Len(node.iter.args[1].args) = 1
       /\ node.target.k = "Name"
       /\ LoopOptimizer_check_index_only_usage(node.body, node.target.id,
                                               node.iter.args[1].args[1])
    THEN For(Name(LoopOptimizer_get_item_name(node.iter.args[1].args[1])),
             node.iter.args[1].args[1], node.body, node.orelse)
    ELSE node

\* visit_For and visit_While after their generic_visit
LoopOptimizer_rewrite_For(n) ==
    IF n.body = <<>> /\ n.orelse = <<>> THEN <<>>
    ELSE <<LoopOptimizer_optimize_range_len(n)>>

LoopOptimizer_rewrite_While(n) ==
    IF IsTrue(n.test) /\ Len(n.body) = 1 /\ n.body[1].k = "Pass" THEN <<>>
    ELSE IF IsFalse(n.test) THEN n.orelse
    ELSE <<n>>

LoopOptimizer_visit_For(t, node) == LoopOptimizer_rewrite_For(generic_visit(t, node))

LoopOptimizer_visit_While(t, node) == LoopOptimizer_rewrite_While(generic_visit(t, node))

\* the list-comprehension assignment, or <<>> for None
ListComprehensionOptimizer_try_optimize_append_loop(statements, index) ==
    IF index + 1 > Len(statements) THEN <<>>
    ELSE LET stmt1 == statements[index]
             stmt2 == statements[index + 1]
         IN  IF /\ stmt1.k = "Assign"
                /\ Len(stmt1.targets) = 1
                /\ stmt1.targets[1].k = "Name"
                /\ stmt1.value.k = "List" /\ stmt1.value.elts = <<>>
                /\ stmt2.k = "For"
                /\ Len(stmt2.body) = 1
                /\ stmt2.body[1].k = "Expr"
                /\ stmt2.body[1].value.k = "Call"
                /\ stmt2.body[1].value.func.k = "Attribute"
                /\ stmt2.body[1].value.func.attr = "append"
                /\ stmt2.body[1].value.func.value.k = "Name"
                /\ stmt2.body[1].value.func.value.id = stmt1.targets[1].id
                /\ Len(stmt2.body[1].value.args) = 1
             THEN <<Assign(<<stmt1.targets[1]>>,
                           ListComp(stmt2.body[1].value.args[1], stmt2.target, stmt2.iter))>>
             ELSE <<>>

RECURSIVE ListComprehensionOptimizer_scan(_, _)
ListComprehensionOptimizer_scan(body, i) ==
    IF i > Len(body) THEN <<>>
    ELSE LET optimized == ListComprehensionOptimizer_try_optimize_append_loop(body, i)
         IN  IF optimized # <<>>
             THEN optimized \o ListComprehensionOptimizer_scan(body, i + 2)
             ELSE <<body[i]>> \o ListComprehensionOptimizer_scan(body, i + 1)

ListComprehensionOptimizer_rewrite_body(n) ==
    [n EXCEPT !.body = ListComprehensionOptimizer_scan(n.body, 1)]

ListComprehensionOptimizer_visit_Module(t, node) ==
    ListComprehensionOptimizer_rewrite_body(generic_visit(t, node))

(***************************************************************************)
(* rules/conditional_optimization.py                                       *)
(***************************************************************************)
ConditionalOptimizer_remove_pass_else(node) ==
    IF Len(node.orelse) = 1 /\ node.orelse[1].k = "Pass"
    THEN [node EXCEPT !.orelse = <<>>]
    ELSE node

ConditionalOptimizer_simplify_nested_if(node) ==
    IF node.orelse # <<>> THEN node
    ELSE IF Len(node.body) = 1 /\ node.body[1].k = "If" /\ node.body[1].orelse = <<>>
         THEN If(BoolOp("And", <<node.test, node.body[1].test>>), node.body[1].body, <<>>)
         ELSE node

ConditionalOptimizer_simplify_boolean_condition(node) ==
    LET test == node.test IN
    IF test.k = "Compare"
    THEN IF Len(test.ops) = 1 /\ Len(test.comparators) = 1
            /\ test.comparators[1].k = "Constant"
         THEN IF IsTrue(test.comparators[1])
              THEN IF test.ops[1] \in {"Eq", "Is"} THEN [node EXCEPT !.test = test.left]
                   ELSE node
              ELSE IF IsFalse(test.comparators[1])
              THEN IF test.ops[1] \in {"Eq", "Is"}
                   THEN [node EXCEPT !.test = UnaryOp("Not", test.left)]
                   ELSE IF test.ops[1] = "NotEq" THEN [node EXCEPT !.test = test.left]
                   ELSE node
              ELSE node
         ELSE node
    ELSE IF test.k = "UnaryOp" /\ test.op = "Not"
         THEN IF test.operand.k = "UnaryOp" /\ test.operand.op = "Not"
              THEN [node EXCEPT !.test = test.operand.operand]
              ELSE node
         ELSE node

\* ast.dump prints the structure without the location attributes, so two
\* statements have equal dumps exactly when they are equal trees
ConditionalOptimizer_are_equivalent(body1, body2) ==
    /\ Len(body1) = Len(body2)
    /\ \A i \in 1..Len(body1) : body1[i] = body2[i]

ConditionalOptimizer_merge_duplicate_branches(node) ==
    IF node.body # <<>> /\ node.orelse # <<>>
       /\ ConditionalOptimizer_are_equivalent(node.body, node.orelse)
    THEN node.body
    ELSE <<node>>

ConditionalOptimizer_visit_If(t, node) ==
    ConditionalOptimizer_merge_duplicate_branches(
        ConditionalOptimizer_simplify_boolean_condition(
            ConditionalOptimizer_simplify_nested_if(
                ConditionalOptimizer_remove_pass_else(generic_visit(t, node)))))

BooleanExpressionSimplifier_rewrite_UnaryOp(n) ==
    LET operand == n.operand
    IN  IF n.op # "Not" THEN n
        ELSE IF operand.k = "UnaryOp" /\ operand.op = "Not" THEN operand.operand
        ELSE IF operand.k = "BoolOp" /\ operand.op = "And"
        THEN BoolOp("Or", [i \in 1..Len(operand.values) |-> UnaryOp("Not", operand.values[i])])
        ELSE IF operand.k = "BoolOp" /\ operand.op = "Or"
        THEN BoolOp("And", [i \in 1..Len(operand.values) |-> UnaryOp("Not", operand.values[i])])
        ELSE n

BooleanExpressionSimplifier_visit_UnaryOp(t, node) ==
    BooleanExpressionSimplifier_rewrite_UnaryOp(generic_visit(t, node))

BooleanExpressionSimplifier_rewrite_BoolOp(n) ==
    LET short == \E i \in 1..Len(n.values) :
                    \/ n.op = "And" /\ IsFalse(n.values[i])
                    \/ n.op = "Or" /\ IsTrue(n.values[i])
        new_values == SelectSeq(n.values, LAMBDA value : value.k # "Constant")
    IN  IF short THEN (IF n.op = "And" THEN False ELSE True)
        ELSE IF Len(new_values) = 1 THEN new_values[1]
        ELSE IF new_values = <<>> THEN (IF n.op = "And" THEN True ELSE False)
        ELSE [n EXCEPT !.values = new_values]

BooleanExpressionSimplifier_visit_BoolOp(t, node) ==
    BooleanExpressionSimplifier_rewrite_BoolOp(generic_visit(t, node))

(***************************************************************************)
(* rules/recursion_optimization.py                                         *)
(***************************************************************************)
IsSelfCall(e, fname) == e.k = "Call" /\ e.func.k = "Name" /\ e.func.id = fname

\* RecursiveFunctionDetector: visit_Call sets is_recursive, visit_Return
\* sets is_tail_recursive; both continue with generic_visit
RecursiveFunctionDetector_visit(w, function_name) ==
    [is_recursive |-> \E i \in DOMAIN w : IsSelfCall(w[i], function_name),
     is_tail_recursive |->
        \E i \in DOMAIN w : w[i].k = "Return" /\ IsSelfCall(w[i].value, function_name)]

RecursiveFunctionDetector(node) == RecursiveFunctionDetector_visit(Walk(node), node.name)

side_effect_funcs ==
    {"print", "input", "open", "write", "append", "remove", "pop", "clear", "update", "add"}

SideEffectDetector_has_side_effects(n) ==
    \/ n.k = "Call" /\ n.func.k = "Name" /\ n.func.id \in side_effect_funcs
    \/ n.k = "Assign" /\ \E j \in DOMAIN n.targets :
                            n.targets[j].k \in {"Attribute", "Subscript"}
    \/ n.k = "AugAssign" /\ n.target.k \in {"Attribute", "Subscript"}

SideEffectDetector(node) == AnyNode(Walk(node), SideEffectDetector_has_side_effects)

\* visit_FunctionDef after its generic_visit
FibonacciToIterative_convert(node) ==
    LET param_name == node.params[1]
        first == node.body[1]
        second == node.body[2]
        a_b == Tuple(<<Name("a"), Name("b")>>)
    IN  IF /\ Len(node.params) = 1
           /\ Len(node.body) >= 2
           /\ first.k = "If"
           /\ Len(first.body) = 1 /\ first.body[1].k = "Return"
           /\ first.body[1].value.k = "Name" /\ first.body[1].value.id = param_name
           /\ second.k = "Return"
           /\ second.value.k = "BinOp" /\ second.value.op = "Add"
           /\ IsSelfCall(second.value.left, node.name)
           /\ IsSelfCall(second.value.right, node.name)
        THEN <<[node EXCEPT !.body =
                  << Assign(<<a_b>>, Tuple(<<Num(0), Num(1)>>)),
                     For(Name("i"), Call(Name("range"), <<Name(param_name)>>, <<>>),
                         <<Assign(<<a_b>>,
                                  Tuple(<<Name("b"), BinOp(Name("a"), "Add", Name("b"))>>))>>,
                         <<>>),
                     Return(Name("a")) >>]>>
        ELSE <<node>>

FibonacciToIterative_visit_FunctionDef(t, node) ==
    FibonacciToIterative_convert(generic_visit(t, node))

is_tail_call_return(stmt, fname) == stmt.k = "Return" /\ IsSelfCall(stmt.value, fname)

\* the single return statement of a branch, or Absent (None)
SingleReturn(block) ==
    IF Len(block) = 1 /\ block[1].k = "Return" THEN block[1] ELSE Absent

\* which of the cases A, B, C of the pattern scan statement i matches
TailCase(node, i) ==
    LET stmt == node.body[i]
        left_ret == SingleReturn(stmt.body)
        right_ret == SingleReturn(stmt.orelse)
    IN  IF stmt.k # "If" THEN "none"
        ELSE IF left_ret # Absent /\ right_ret # Absent
                /\ is_tail_call_return(right_ret, node.name) THEN "A"
        ELSE IF left_ret # Absent /\ right_ret # Absent
                /\ is_tail_call_return(left_ret, node.name) THEN "B"
        ELSE IF left_ret # Absent /\ i + 1 <= Len(node.body)
                /\ is_tail_call_return(node.body[i + 1], node.name) THEN "C"
        ELSE "none"

\* the loop with the parameters rebound one after the other, each new value
\* computed from the parameters already rebound
TailRecursionToIteration_build_sequential(node, condition, base_return, call) ==
    IF Len(call.args) # Len(node.params) \/ Len(node.params) = 0 THEN <<node>>
    ELSE <<[node EXCEPT !.body =
             <<While(True,
                     <<If(condition, <<Return(base_return)>>, <<>>)>>
                     \o [idx \in 1..Len(node.params) |->
                            Assign(<<Name(node.params[idx])>>, call.args[idx])]
                     \o <<Continue>>,
                     <<>>)>>]>>

\* lines 343-402: the loop built from the base case and the tail call
TailRecursionToIteration_build(node, condition, base_return, call) ==
    LET param_names == node.params
        pos_args == call.args
        kw(pname) == {j \in 1..Len(call.keywords) : call.keywords[j].arg = pname}
        new_values == [idx \in 1..Len(param_names) |->
            IF idx <= Len(pos_args) THEN pos_args[idx]
            ELSE IF kw(param_names[idx]) # {}
                 THEN call.keywords[CHOOSE j \in kw(param_names[idx]) :
                                       \A h \in kw(param_names[idx]) : h <= j].value
                 ELSE Name(param_names[idx])]
        targets == [idx \in 1..Len(param_names) |-> Name(param_names[idx])]
    IN  IF \E j \in 1..Len(call.keywords) : call.keywords[j].arg = NoName
        THEN <<node>>
        ELSE IF \E j \in 1..Len(call.args) : call.args[j].k = "Starred" THEN <<node>>
        ELSE IF Len(new_values) = 0 THEN <<Raised("IndexError")>>  \* new_values[0]
        ELSE <<[node EXCEPT !.body =
                 <<While(True,
                         <<If(condition, <<Return(base_return)>>, <<>>),
                           Assign(IF Len(targets) > 1 THEN <<Tuple(targets)>> ELSE targets,
                                  IF Len(new_values) > 1 THEN Tuple(new_values)
                                  ELSE new_values[1]),
                           Continue>>,
                         <<>>)>>]>>

\* lines 300-341: statement i of the body matched case A, B or C
TailRecursionToIteration_match(node, i, case) ==
    TailRecursionToIteration_build(
        node,
        node.body[i].test,
        IF case = "B" THEN node.body[i].orelse[1].value ELSE node.body[i].body[1].value,
        CASE case = "A" -> node.body[i].orelse[1].value
          [] case = "B" -> node.body[i].body[1].value
          [] OTHER -> node.body[i + 1].value)

TailRecursionToIteration_first(node, i) ==
    TailRecursionToIteration_match(node, i, TailCase(node, i))

\* visit_FunctionDef after its generic_visit: the first statement that matches
TailRecursionToIteration_convert(node) ==
    IF \A i \in 1..Len(node.body) : TailCase(node, i) = "none" THEN <<node>>
    ELSE TailRecursionToIteration_first(
            node, CHOOSE i \in 1..Len(node.body) :
                     /\ TailCase(node, i) # "none"
                     /\ \A h \in 1..(i - 1) : TailCase(node, h) = "none")

TailRecursionToIteration_visit_FunctionDef(t, node) ==
    TailRecursionToIteration_convert(generic_visit(t, node))

HasLruCache(node) ==
    \E i \in 1..Len(node.decorator_list) :
        LET d == node.decorator_list[i] IN
        \/ d.k = "Name" /\ d.id = "lru_cache"
        \/ d.k = "Attribute" /\ d.attr = "lru_cache"
        \/ d.k = "Call" /\ d.func.k = "Name" /\ d.func.id = "lru_cache"
        \/ d.k = "Call" /\ d.func.k = "Attribute" /\ d.func.attr = "lru_cache"

\* the condition of lines 238-240 on a function whose children were visited
MemoizationDecorator_accepts(node, detector) ==
    /\ ~HasLruCache(node)
    /\ detector.is_recursive
    /\ ~(detector.is_tail_recursive /\ ~detector.is_recursive)
    /\ ~SideEffectDetector(node)

ShouldMemoize(node) == MemoizationDecorator_accepts(node, RecursiveFunctionDetector(node))

lru_cache_decorator == Call(Attribute(Name("functools"), "lru_cache"), <<None>>, <<>>)

MemoizationDecorator_decorate(node) ==
    IF ShouldMemoize(node)
    THEN <<[node EXCEPT !.decorator_list = <<lru_cache_decorator>> \o @]>>
    ELSE <<node>>

MemoizationDecorator_visit_FunctionDef(t, node) ==
    MemoizationDecorator_decorate(generic_visit(t, node))

FunctoolsImportAdder_visit_Module_always(t, node) ==
    [node EXCEPT !.body = <<Import(<<Alias(<<"functools">>, NoName)>>)>> \o @]

FunctoolsImportAdder_visit_Module(t, node) ==
    LET has_functools ==
            \E i \in 1..Len(node.body) :
                \/ node.body[i].k = "Import"
                   /\ \E j \in 1..Len(node.body[i].names) :
                         node.body[i].names[j].name = <<"functools">>
                \/ node.body[i].k = "ImportFrom" /\ node.body[i].module = <<"functools">>
    IN  IF ~has_functools
        THEN [node EXCEPT !.body = <<Import(<<Alias(<<"functools">>, NoName)>>)>> \o @]
        ELSE node

(***************************************************************************)
(* The dispatch of ast.NodeTransformer.visit                               *)
(***************************************************************************)
VisitExpr(t, e) ==
    CASE t.cls = "ConstantFolder" /\ e.k = "BinOp" -> ConstantFolder_visit_BinOp(t, e)
      [] t.cls = "BooleanExpressionSimplifier" /\ e.k = "UnaryOp" ->
            BooleanExpressionSimplifier_visit_UnaryOp(t, e)
      [] t.cls = "BooleanExpressionSimplifier" /\ e.k = "BoolOp" ->
            BooleanExpressionSimplifier_visit_BoolOp(t, e)
      [] OTHER -> generic_visit(t, e)

VisitStmt(t, s) ==
    CASE t.cls = "DeadCodeRemover" /\ s.k = "If" -> DeadCodeRemover_visit_If(t, s)
      [] t.cls = "UnusedImportRemover" /\ s.k = "Import" ->
            UnusedImportRemover_visit_Import(t, s)
      [] t.cls = "UnusedImportRemover" /\ s.k = "ImportFrom" ->
            UnusedImportRemover_visit_ImportFrom(t, s)
      [] t.cls = "UnusedFunctionRemover" /\ s.k = "FunctionDef" ->
            UnusedFunctionRemover_visit_FunctionDef(t, s)
      [] t.cls = "_APIRemover" /\ s.k = "FunctionDef" -> APIRemover_visit_FunctionDef(t, s)
      [] t.cls = "_APIRemover" /\ s.k = "ClassDef" -> APIRemover_visit_ClassDef(t, s)
      [] t.cls = "LoopOptimizer" /\ s.k = "For" -> LoopOptimizer_visit_For(t, s)
      [] t.cls = "LoopOptimizer" /\ s.k = "While" -> LoopOptimizer_visit_While(t, s)
      [] t.cls = "ConditionalOptimizer" /\ s.k = "If" -> ConditionalOptimizer_visit_If(t, s)
      [] t.cls = "FibonacciToIterative" /\ s.k = "FunctionDef" ->
            FibonacciToIterative_visit_FunctionDef(t, s)
      [] t.cls = "TailRecursionToIteration" /\ s.k = "FunctionDef" ->
            TailRecursionToIteration_visit_FunctionDef(t, s)
      [] t.cls = "MemoizationDecorator" /\ s.k = "FunctionDef" ->
            MemoizationDecorator_visit_FunctionDef(t, s)
      [] OTHER -> <<generic_visit(t, s)>>

\* visit applied to the Module that is the root of the tree
Visit(t, module) ==
    CASE t.cls = "ListComprehensionOptimizer" ->
            ListComprehensionOptimizer_visit_Module(t, module)
      [] t.cls = "FunctoolsImportAdder" -> FunctoolsImportAdder_visit_Module(t, module)
      [] OTHER -> generic_visit(t, module)

\* an exception left a visitor method during the pass that produced t
IsRaised(n) == n.k = "Raised"
HasRaised(t) == AnyNode(Walk(t), IsRaised)

(***************************************************************************)
(* The orchestrators of the rule modules                                   *)
(***************************************************************************)
optimize_conditionals(t) ==
    Visit(Transformer("GuardClauseOptimizer"),
          Visit(Transformer("BooleanExpressionSimplifier"),
                Visit(Transformer("ConditionalOptimizer"), t)))

optimize_loops(t) ==
    Visit(Transformer("ListComprehensionOptimizer"), Visit(Transformer("LoopOptimizer"), t))

\* memoizer.needs_functools_import after memoizer.visit(t): some function
\* definition of t was given the decorator
IsMemoized(n) == n.k = "FunctionDef" /\ ShouldMemoize(n)
needs_functools_import(t) == AnyNode(Walk(t), IsMemoized)

\* a tree holding a Raised node stands for the exception leaving the function
\* lines 444-450: the import is added when the memoizer decorated a function
optimize_recursion_import(needs_import, t3) ==
    IF needs_import
    THEN FunctoolsImportAdder_visit_Module(Transformer("FunctoolsImportAdder"), t3)
    ELSE t3

\* lines 440-450, on the tree t2 the two conversions have produced
optimize_recursion_memoize(t2) ==
    IF HasRaised(t2) THEN t2
    ELSE optimize_recursion_import(needs_functools_import(t2),
                                   Visit(Transformer("MemoizationDecorator"), t2))

optimize_recursion(t) ==
    optimize_recursion_memoize(
        Visit(Transformer("TailRecursionToIteration"),
              Visit(Transformer("FibonacciToIterative"), t)))

(***************************************************************************)
(* rules/remove_unused_apis.py.  A project is the sequence of the files    *)
(* os.walk meets: dir is the path of the file's directory below the root   *)
(* as a sequence of components, ok says that the file can be read and      *)
(* parsed.  A root is the sequence dirpath.split(os.sep) gives for it.     *)
(***************************************************************************)
File(dir, name, ok, body) == [dir |-> dir, name |-> name, ok |-> ok, body |-> body]

DotParts == {".", "..", ".git", ".venv"}
StartsWithDot(part) == part \in DotParts
PyNames == {"a.py", "b.py", "mod.py"}
EndsWithPy(fname) == fname \in PyNames

ModuleExports(body) ==
    UNION {
        IF /\ body[i].k = "Assign"
           /\ \E j \in DOMAIN body[i].targets :
                 body[i].targets[j].k = "Name" /\ body[i].targets[j].id = "__all__"
           /\ body[i].value.k \in {"List", "Tuple"}
        THEN {body[i].value.elts[j].s : j \in {h \in DOMAIN body[i].value.elts :
                 body[i].value.elts[h].k = "Constant" /\ body[i].value.elts[h].ty = "str"}}
        ELSE {} : i \in DOMAIN body}

Scanned(rt, files, i) ==
    LET parts == rt \o files[i].dir
    IN  /\ ~\E j \in DOMAIN parts : StartsWithDot(parts[j])
        /\ EndsWithPy(files[i].name)
        /\ files[i].ok

\* the scan as it would be if the first file that fails ended the walk
collect_project_used_names_abort(rt, files) ==
    LET scanned == {i \in DOMAIN files :
                       /\ Scanned(rt, files, i)
                       /\ \A j \in 1..i : files[j].ok}
        used == UNION {collect_used_names(files[i].body) : i \in scanned}
        exports == UNION {ModuleExports(files[i].body.body) : i \in scanned}
    IN  used \cup exports

collect_project_used_names(rt, files) ==
    LET scanned == {i \in DOMAIN files : Scanned(rt, files, i)}
        used == UNION {collect_used_names(files[i].body) : i \in scanned}
        exports == UNION {ModuleExports(files[i].body.body) : i \in scanned}
    IN  used \cup exports

optimize_remove_unused_apis(t, rt, files) ==
    LET names == collect_project_used_names(rt, files) \cup collect_used_names(t)
    IN  Visit(TransformerWith("_APIRemover", names), t)

(***************************************************************************)
(* parser.py: generate_code followed by parse_code succeeds exactly when   *)
(* every compound statement has a statement in its body                    *)
(***************************************************************************)
HasBody(n) == n.k \in {"FunctionDef", "ClassDef", "If", "While", "For"} => n.body # <<>>
WellFormed(t) == EveryNode(Walk(t), HasBody)

(***************************************************************************)
(* Input programs of the pipeline                                          *)
(***************************************************************************)
MaxStmts == 2

x == Name("x")
CallOf(f, as) == Call(Name(f), as, <<>>)

S_unused == FunctionDef("unused", <<>>, <<Return(Num(5))>>, <<>>)
S_used == FunctionDef("used", <<>>, <<Return(Num(5))>>, <<>>)
S_call_used == Assign(<<x>>, CallOf("used", <<>>))
S_class == ClassDef("K", <<Pass>>)
S_all == Assign(<<Name("__all__")>>, List(<<Str("unused")>>))
S_zero == FunctionDef("z", <<>>,
            <<If(Name("c"), <<Return(Num(1))>>, <<>>), Return(CallOf("z", <<>>))>>, <<>>)
S_zero_else == FunctionDef("z", <<>>,
            <<If(Name("c"), <<Return(Num(1))>>, <<Return(CallOf("z", <<>>))>>)>>, <<>>)
S_dead_body == FunctionDef("used", <<>>, <<If(False, <<Assign(<<x>>, Num(1))>>, <<>>)>>, <<>>)
S_if_while == If(Name("c"), <<While(True, <<Pass>>, <<>>)>>, <<>>)
S_while_while == While(Name("c"), <<While(True, <<Pass>>, <<>>)>>, <<>>)
S_fold == Assign(<<x>>, BinOp(Num(2), "Add", Num(3)))
S_if_true == If(True, <<Assign(<<x>>, Num(1))>>, <<Assign(<<x>>, Num(2))>>)
S_import_os == Import(<<Alias(<<"os">>, NoName)>>)
S_memo == FunctionDef("m", <<"n">>,
            <<Return(BinOp(CallOf("m", <<BinOp(Name("n"), "Sub", Num(1))>>), "Add", Num(1)))>>,
            <<>>)
S_fact == FunctionDef("fact", <<"n", "acc">>,
            <<If(Compare(Name("n"), "Eq", Num(0)), <<Return(Name("acc"))>>,
                 <<Return(CallOf("fact", <<BinOp(Name("n"), "Sub", Num(1)),
                                           BinOp(Name("acc"), "Mult", Name("n"))>>))>>)>>,
            <<>>)

PipelineStmts ==
    {S_unused, S_used, S_call_used, S_class, S_all, S_zero, S_zero_else, S_dead_body,
     S_if_while, S_while_while, S_fold, S_if_true, S_import_os, S_memo, S_fact}

SeqsUpTo(S, n) == UNION {[1..m -> S] : m \in 1..n}

PipelinePrograms == {Module(b) : b \in SeqsUpTo(PipelineStmts, MaxStmts)}

\* what lies below the working directory when optimize runs
F_user == File(<<>>, "b.py", TRUE, Module(<<Expr(CallOf("unused", <<>>))>>))
PipelineProjects == {<<>>, <<F_user>>}

(***************************************************************************)
(* optimizer.py: optimize, one action per pass                             *)
(***************************************************************************)
Idle == /\ used_names = {} /\ args = <<>> /\ ret = <<>>

\* optimize entered with `program`: line 40 collects the UsageSet of the input
Entered(program) ==
    /\ tree = program
    /\ orig = tree
    /\ prev = tree
    /\ pc = "start"
    /\ remove_unused \in BOOLEAN
    /\ root = <<".">>
    /\ fs \in PipelineProjects
    /\ used_names = collect_used_names(tree)
    /\ args = <<>>
    /\ ret = <<>>

Init == \E program \in PipelinePrograms : Entered(program)

ConstantFolding ==
    /\ pc = "start"
    /\ tree' = Visit(Transformer("ConstantFolder"), tree)
    /\ prev' = tree
    /\ pc' = "folded"
    /\ UNCHANGED <<orig, remove_unused, root, fs, used_names, args, ret>>

DeadCodeRemoval ==
    /\ pc = "folded"
    /\ tree' = Visit(Transformer("DeadCodeRemover"), tree)
    /\ prev' = tree
    /\ pc' = "dead"
    /\ UNCHANGED <<orig, remove_unused, root, fs, used_names, args, ret>>

ConditionalOptimization ==
    /\ pc = "dead"
    /\ tree' = optimize_conditionals(tree)
    /\ prev' = tree
    /\ pc' = "cond"
    /\ UNCHANGED <<orig, remove_unused, root, fs, used_names, args, ret>>

LoopOptimization ==
    /\ pc = "cond"
    /\ tree' = optimize_loops(tree)
    /\ prev' = tree
    /\ pc' = "loops"
    /\ UNCHANGED <<orig, remove_unused, root, fs, used_names, args, ret>>

\* an exception of the pass leaves optimize: the run ends at "raised", with
\* the Raised node in the tree saying which exception it was
RecursionOptimization ==
    /\ pc = "loops"
    /\ tree' = optimize_recursion(tree)
    /\ prev' = tree
    /\ pc' = IF HasRaised(tree') THEN "raised" ELSE "rec"
    /\ UNCHANGED <<orig, remove_unused, root, fs, used_names, args, ret>>

RemoveUnusedApis ==
    /\ pc = "rec"
    /\ tree' = optimize_remove_unused_apis(tree, root, fs)
    /\ prev' = tree
    /\ pc' = "apis"
    /\ UNCHANGED <<orig, remove_unused, root, fs, used_names, args, ret>>

RemoveUnusedImports_stale ==
    /\ pc = "apis"
    /\ used_names' = used_names
    /\ tree' = Visit(TransformerWith("UnusedImportRemover", used_names), tree)
    /\ prev' = tree
    /\ pc' = "imports"
    /\ UNCHANGED <<orig, remove_unused, root, fs, args, ret>>

\* lines 51-52: the UsageSet is collected again from the tree as it is now
RemoveUnusedImports ==
    /\ pc = "apis"
    /\ used_names' = collect_used_names(tree)
    /\ tree' = Visit(TransformerWith("UnusedImportRemover", used_names'), tree)
    /\ prev' = tree
    /\ pc' = "imports"
    /\ UNCHANGED <<orig, remove_unused, root, fs, args, ret>>

RemoveUnusedFunctions ==
    /\ pc = "imports"
    /\ tree' = IF remove_unused
               THEN Visit(TransformerWith("UnusedFunctionRemover",
                                          collect_called_functions(tree)), tree)
               ELSE tree
    /\ prev' = tree
    /\ pc' = "done"
    /\ UNCHANGED <<orig, remove_unused, root, fs, used_names, args, ret>>

Next ==
    \/ ConstantFolding
    \/ DeadCodeRemoval
    \/ ConditionalOptimization
    \/ LoopOptimization
    \/ RecursionOptimization
    \/ RemoveUnusedApis
    \/ RemoveUnusedImports
    \/ RemoveUnusedFunctions

Spec == Init /\ [][Next]_vars

(***************************************************************************)
(* One rule applied to a parsed module, as tests/test_rules.py does:       *)
(* UnusedImportRemover is handed a UsageSet, UnusedFunctionRemover the     *)
(* CallSet collect_called_functions computes over the tree it prunes.      *)
(***************************************************************************)
MaxRuleStmts == 3

y == Name("y")
A1 == Assign(<<x>>, Num(1))
A2 == Assign(<<y>>, Num(2))
B1 == Assign(<<x>>, Num(3))

FoldStmts ==
    { Assign(<<x>>, BinOp(Num(2), "Add", Num(3))),
      Assign(<<x>>, BinOp(Num(4), "Mult", Num(5))),
      Assign(<<x>>, BinOp(y, "Add", Num(3))),
      Assign(<<x>>, BinOp(Num(1), "FloorDiv", Num(0))),
      Assign(<<x>>, BinOp(Str("a"), "Add", Num(1))),
      Assign(<<x>>, BinOp(BinOp(y, "Mult", Num(2)), "Sub", Num(1))) }

DeadStmts ==
    { If(True, <<A1, A2>>, <<B1>>),
      If(False, <<A1>>, <<>>),
      If(False, <<A1>>, <<B1, A2>>),
      If(Name("c"), <<A1>>, <<B1>>),
      If(Num(1), <<A1>>, <<B1>>),
      While(Name("c"), <<If(True, <<A1>>, <<>>), If(y, <<A2>>, <<>>)>>, <<>>),
      A2 }

ImportStmts ==
    { Import(<<Alias(<<"os">>, NoName)>>),
      Import(<<Alias(<<"os", "path">>, NoName)>>),
      Import(<<Alias(<<"a">>, NoName), Alias(<<"os">>, NoName)>>),
      Import(<<Alias(<<"a">>, "np")>>),
      ImportFrom(<<"os">>, <<Alias(<<"a">>, NoName), Alias(<<"path">>, "np")>>),
      A1 }

UsageSets == SUBSET {"os", "a", "np"}

FunctionStmts ==
    { S_used,
      S_call_used,
      FunctionDef("caller", <<>>, <<Return(CallOf("used", <<>>))>>, <<>>),
      FunctionDef("outer", <<>>,
                  <<FunctionDef("inner", <<>>, <<Pass>>, <<>>), Expr(CallOf("inner", <<>>))>>,
                  <<>>),
      Expr(CallOf("outer", <<>>)),
      ClassDef("K", <<FunctionDef("used", <<"self">>, <<Return(Num(1))>>, <<>>)>>),
      ClassDef("C",
               <<FunctionDef("__init__", <<"self">>,
                             <<Expr(Call(Attribute(Name("self"), "method"), <<>>, <<>>))>>, <<>>),
                 FunctionDef("method", <<"self">>, <<Return(Num(1))>>, <<>>)>>) }

RulePrograms ==
    {Module(b) : b \in SeqsUpTo(FoldStmts, MaxRuleStmts) \cup SeqsUpTo(DeadStmts, MaxRuleStmts)
                       \cup SeqsUpTo(ImportStmts, MaxRuleStmts)
                       \cup SeqsUpTo(FunctionStmts, MaxRuleStmts)}

InitRules ==
    /\ tree \in RulePrograms
    /\ orig = tree
    /\ prev = tree
    /\ pc = "parsed"
    /\ remove_unused = FALSE
    /\ root = <<".">>
    /\ fs = <<>>
    /\ Idle

ApplyConstantFolder ==
    /\ pc = "parsed"
    /\ tree' = Visit(Transformer("ConstantFolder"), tree)
    /\ prev' = tree
    /\ pc' = "ConstantFolder"
    /\ UNCHANGED <<orig, remove_unused, root, fs, used_names, args, ret>>

ApplyDeadCodeRemover ==
    /\ pc = "parsed"
    /\ tree' = Visit(Transformer("DeadCodeRemover"), tree)
    /\ prev' = tree
    /\ pc' = "DeadCodeRemover"
    /\ UNCHANGED <<orig, remove_unused, root, fs, used_names, args, ret>>

ApplyUnusedImportRemover ==
    /\ pc = "parsed"
    /\ \E U \in UsageSets :
          /\ used_names' = U
          /\ tree' = Visit(TransformerWith("UnusedImportRemover", U), tree)
    /\ prev' = tree
    /\ pc' = "UnusedImportRemover"
    /\ UNCHANGED <<orig, remove_unused, root, fs, args, ret>>

ApplyUnusedFunctionRemover ==
    /\ pc = "parsed"
    /\ used_names' = collect_called_functions(tree)
    /\ tree' = Visit(TransformerWith("UnusedFunctionRemover", used_names'), tree)
    /\ prev' = tree
    /\ pc' = "UnusedFunctionRemover"
    /\ UNCHANGED <<orig, remove_unused, root, fs, args, ret>>

NextRules ==
    \/ ApplyConstantFolder
    \/ ApplyDeadCodeRemover
    \/ ApplyUnusedImportRemover
    \/ ApplyUnusedFunctionRemover

SpecRules == InitRules /\ [][NextRules]_vars

(***************************************************************************)
(* The conditional passes applied to a module of one statement:            *)
(* BooleanExpressionSimplifier alone, and optimize_conditionals.           *)
(***************************************************************************)
\* AND/OR chains of up to MaxChain operands: names, the two boolean literals
\* and literals that are not booleans
MaxChain == 2

BoolOperands == {x, True, False, Num(0), None, Str("s")}

BoolStmts ==
    {Assign(<<y>>, BoolOp(op, vs)) :
        op \in {"And", "Or"}, vs \in UNION {[1..m -> BoolOperands] : m \in 2..MaxChain}}

Not(e) == UnaryOp("Not", e)

\* a double negation in each position an expression can take
NotStmts ==
    { If(Not(Not(x)), <<A1>>, <<>>),
      While(Not(Not(x)), <<A1>>, <<>>),
      Assign(<<y>>, Not(Not(x))),
      Assign(<<y>>, Not(x)),
      FunctionDef("f", <<"x">>, <<Return(Not(Not(x)))>>, <<>>),
      Assign(<<y>>, Not(Not(BoolOp("And", <<Name("a"), Name("b")>>)))),
      Assign(<<y>>, Not(Not(Compare(x, "Lt", Num(1))))) }

\* conditionals with equal branches, with different branches, without else
BranchStmts ==
    { If(Name("c"), <<A1>>, <<A1>>),
      If(Name("c"), <<A1, A2>>, <<A1, A2>>),
      If(Name("c"), <<Pass>>, <<Pass>>),
      If(Name("c"), <<A1, Pass>>, <<A1, Pass>>),
      If(Compare(x, "Eq", True), <<A2>>, <<A2>>),
      If(Name("c"), <<A1>>, <<B1>>),
      If(Name("c"), <<A1, A2>>, <<A1>>),
      If(Name("c"), <<A1, A2>>, <<A2, A1>>),
      If(Name("c"), <<A1>>, <<>>),
      If(Name("c"), <<A1>>, <<Pass>>),
      If(Name("c"), <<Pass>>, <<A1>>),
      If(Name("a"), <<A1>>, <<If(Name("b"), <<A1>>, <<A1>>)>>) }

ConditionalPrograms == {Module(<<s>>) : s \in BoolStmts \cup NotStmts \cup BranchStmts}

InitConditionals ==
    /\ tree \in ConditionalPrograms
    /\ orig = tree
    /\ prev = tree
    /\ pc = "parsed"
    /\ remove_unused = FALSE
    /\ root = <<".">>
    /\ fs = <<>>
    /\ Idle

ApplyBooleanExpressionSimplifier ==
    /\ pc = "parsed"
    /\ tree' = Visit(Transformer("BooleanExpressionSimplifier"), tree)
    /\ prev' = tree
    /\ pc' = "BooleanExpressionSimplifier"
    /\ UNCHANGED <<orig, remove_unused, root, fs, used_names, args, ret>>

ApplyConditionalOptimizer ==
    /\ pc = "parsed"
    /\ tree' = Visit(Transformer("ConditionalOptimizer"), tree)
    /\ prev' = tree
    /\ pc' = "ConditionalOptimizer"
    /\ UNCHANGED <<orig, remove_unused, root, fs, used_names, args, ret>>

ApplyOptimizeConditionals ==
    /\ pc = "parsed"
    /\ tree' = optimize_conditionals(tree)
    /\ prev' = tree
    /\ pc' = "optimize_conditionals"
    /\ UNCHANGED <<orig, remove_unused, root, fs, used_names, args, ret>>

NextConditionals ==
    \/ ApplyConditionalOptimizer
    \/ ApplyBooleanExpressionSimplifier
    \/ ApplyOptimizeConditionals

SpecConditionals == InitConditionals /\ [][NextConditionals]_vars

(***************************************************************************)
(* optimize_remove_unused_apis called with a project root, as              *)
(* tests/test_remove_unused_apis.py calls it: the module being pruned is   *)
(* mod.py, which may or may not lie below the root that is scanned.        *)
(***************************************************************************)
MaxApiStmts == 2

S_all_api == Assign(<<Name("__all__")>>, List(<<Str("api")>>))
S_api == FunctionDef("api", <<>>, <<Return(Num(1))>>, <<>>)

\* a definition that is not at the top level
S_if_def == If(Name("c"), <<S_unused>>, <<>>)

ApiStmts == {S_all_api, S_api, S_unused, S_used, S_call_used, S_class, S_if_def}

ApiPrograms == {Module(b) : b \in SeqsUpTo(ApiStmts, MaxApiStmts)}

\* the relative root optimize passes, a relative and an absolute directory
Roots == {<<".">>, <<"proj">>, <<"", "tmp", "proj">>}

F_hidden == File(<<".venv">>, "a.py", TRUE, Module(<<Expr(Name("K"))>>))
F_broken == File(<<>>, "b.py", FALSE, Module(<<Expr(CallOf("unused", <<>>))>>))
F_text == File(<<"docs">>, "notes.txt", TRUE, Module(<<Expr(CallOf("unused", <<>>))>>))
F_mod(t) == File(<<>>, "mod.py", TRUE, t)

\* a module one directory down, listed after the file that fails
F_late == File(<<"pkg">>, "a.py", TRUE,
               Module(<<Assign(<<Name("__all__")>>, List(<<Str("late")>>)),
                        Expr(CallOf("used", <<>>))>>))

OtherFiles == {<<>>, <<F_user>>, <<F_broken, F_hidden, F_text>>, <<F_broken, F_late>>}

InitApis ==
    /\ tree \in ApiPrograms
    /\ orig = tree
    /\ prev = tree
    /\ pc = "parsed"
    /\ remove_unused = FALSE
    /\ root \in Roots
    /\ \E others \in OtherFiles : fs \in {others, <<F_mod(tree)>> \o others}
    /\ Idle

PruneApis ==
    /\ pc = "parsed"
    /\ used_names' = collect_project_used_names(root, fs)
    /\ tree' = optimize_remove_unused_apis(tree, root, fs)
    /\ prev' = tree
    /\ pc' = "pruned"
    /\ UNCHANGED <<orig, remove_unused, root, fs, args, ret>>

NextApis == PruneApis

SpecApis == InitApis /\ [][NextApis]_vars

(***************************************************************************)
(* Execution of a function definition, as test_performance.py executes the *)
(* original and the rewritten source (exec, then a call).  A value is a    *)
(* literal; env maps the local names to values; fuel bounds the depth of   *)
(* calls and the number of loop iterations, as the recursion limit does.   *)
(***************************************************************************)
MaxFuel == 40

Truthy(c) == IF Numeric(c) THEN c.v # 0 ELSE c.ty = "str" /\ c.s # ""
PyBool(b) == IF b THEN True ELSE False

PyCompare(op, l, r) ==
    IF ~(Numeric(l) /\ Numeric(r)) THEN Failed
    ELSE CASE op = "Eq" -> Value(PyBool(l.v = r.v))
           [] op = "NotEq" -> Value(PyBool(l.v # r.v))
           [] op = "Lt" -> Value(PyBool(l.v < r.v))
           [] op = "LtE" -> Value(PyBool(l.v <= r.v))
           [] op = "Gt" -> Value(PyBool(l.v > r.v))
           [] op = "GtE" -> Value(PyBool(l.v >= r.v))
           [] OTHER -> Failed

\* the outcome of a statement: control goes on ("next"), the function
\* returns, the loop continues, or an exception is raised
Outcome(st, env, value) == [st |-> st, env |-> env, value |-> value]
Goes(env) == Outcome("next", env, None)
Raises(env) == Outcome("raise", env, None)

AllOk(rs) == \A i \in DOMAIN rs : rs[i].ok
ValuesOf(rs) == [i \in DOMAIN rs |-> rs[i].value]

\* names bound to values, the last binding of a name winning
Bind(env, names, values) ==
    [n \in DOMAIN env \cup {names[i] : i \in DOMAIN names} |->
        IF \E i \in DOMAIN names : names[i] = n
        THEN values[CHOOSE i \in DOMAIN names :
                       names[i] = n /\ \A j \in DOMAIN names : names[j] = n => j <= i]
        ELSE env[n]]

TargetNames(target) ==
    IF target.k = "Tuple" THEN [i \in DOMAIN target.elts |-> target.elts[i].id]
    ELSE <<target.id>>

\* the expressions whose values the names of the target receive
TargetValues(target, e) == IF target.k = "Tuple" THEN e.elts ELSE <<e>>

RECURSIVE EvalExpr(_, _, _, _), ExecStmt(_, _, _, _), ExecBlock(_, _, _, _, _),
          ExecFor(_, _, _, _, _, _), CallFunction(_, _, _)

EvalExprs(fn, env, es, fuel) == [i \in 1..Len(es) |-> EvalExpr(fn, env, es[i], fuel)]

EvalBinOp(op, l, r) == IF l.ok /\ r.ok THEN PyBinOp(op, l.value, r.value) ELSE Failed

EvalCompare(op, l, r) == IF l.ok /\ r.ok THEN PyCompare(op, l.value, r.value) ELSE Failed

\* the parameters of a definition, the keyword-only ones last
AllParams(fn) == fn.params \o KwOnly(fn)

Range(seq) == {seq[i] : i \in DOMAIN seq}

\* a call the binding of Python accepts: no more positional arguments than
\* positional parameters, every keyword names a parameter not yet given, and
\* every parameter receives a value (defaults and unpacking are not modelled)
CallBinds(fn, e) ==
    /\ Len(e.args) <= Len(fn.params)
    /\ \A i \in DOMAIN e.args : e.args[i].k # "Starred"
    /\ \A i \in DOMAIN e.keywords :
          /\ e.keywords[i].arg \in Range(AllParams(fn))
                                    \ {fn.params[j] : j \in 1..Len(e.args)}
          /\ \A j \in DOMAIN e.keywords : e.keywords[j].arg = e.keywords[i].arg => j = i
    /\ Len(e.args) + Len(e.keywords) = Len(AllParams(fn))

\* the argument expressions of an accepted call in the order of AllParams
CallArgs(fn, e) ==
    [idx \in 1..Len(AllParams(fn)) |->
        IF idx <= Len(e.args) THEN e.args[idx]
        ELSE e.keywords[CHOOSE i \in DOMAIN e.keywords :
                           e.keywords[i].arg = AllParams(fn)[idx]].value]

EvalCall(fn, rs, fuel) ==
    IF AllOk(rs) /\ Len(rs) = Len(AllParams(fn))
    THEN CallFunction(fn, ValuesOf(rs), fuel)
    ELSE Failed

EvalExpr(fn, env, e, fuel) ==
    CASE e.k = "Constant" -> Value(e)
      [] e.k = "Name" -> IF e.id \in DOMAIN env THEN Value(env[e.id]) ELSE Failed
      [] e.k = "BinOp" ->
            EvalBinOp(e.op, EvalExpr(fn, env, e.left, fuel), EvalExpr(fn, env, e.right, fuel))
      [] e.k = "Compare" /\ Len(e.ops) = 1 ->
            EvalCompare(e.ops[1], EvalExpr(fn, env, e.left, fuel),
                        EvalExpr(fn, env, e.comparators[1], fuel))
      [] IsSelfCall(e, fn.name) /\ CallBinds(fn, e) ->
            EvalCall(fn, EvalExprs(fn, env, CallArgs(fn, e), fuel), fuel)
      [] OTHER -> Failed

ExecReturn(env, r) == IF r.ok THEN Outcome("return", env, r.value) ELSE Raises(env)

ExecAssign(env, names, rs) ==
    IF AllOk(rs) /\ Len(rs) = Len(names) THEN Goes(Bind(env, names, ValuesOf(rs)))
    ELSE Raises(env)

ExecIf(fn, env, s, test, fuel) ==
    IF ~test.ok THEN Raises(env)
    ELSE IF Truthy(test.value) THEN ExecBlock(fn, env, s.body, 1, fuel)
    ELSE ExecBlock(fn, env, s.orelse, 1, fuel)

\* after the body of a while loop: the next iteration, unless the body left
ExecWhileAgain(fn, s, r, fuel) ==
    IF r.st \in {"next", "continue"} THEN ExecStmt(fn, r.env, s, fuel - 1) ELSE r

ExecWhile(fn, env, s, test, fuel) ==
    IF ~test.ok \/ fuel = 0 THEN Raises(env)
    ELSE IF Truthy(test.value)
    THEN ExecWhileAgain(fn, s, ExecBlock(fn, env, s.body, 1, fuel), fuel)
    ELSE ExecBlock(fn, env, s.orelse, 1, fuel)

ExecForAgain(fn, s, i, n, r, fuel) ==
    IF r.st \in {"next", "continue"} THEN ExecFor(fn, r.env, s, i + 1, n, fuel) ELSE r

\* the iterations i, i + 1, ... of `for target in range(n)`
ExecFor(fn, env, s, i, n, fuel) ==
    IF i >= n THEN ExecBlock(fn, env, s.orelse, 1, fuel)
    ELSE ExecForAgain(fn, s, i, n,
                      ExecBlock(fn, Bind(env, TargetNames(s.target), <<Num(i)>>),
                                s.body, 1, fuel),
                      fuel)

\* range(stop) is evaluated once, before the first iteration
ExecForRange(fn, env, s, stop, fuel) ==
    IF stop.ok /\ Numeric(stop.value)
    THEN ExecFor(fn, env, s, 0, stop.value.v, fuel)
    ELSE Raises(env)

ExecStmt(fn, env, s, fuel) ==
    CASE s.k = "Return" -> ExecReturn(env, EvalExpr(fn, env, s.value, fuel))
      [] s.k = "Assign" /\ Len(s.targets) = 1 ->
            ExecAssign(env, TargetNames(s.targets[1]),
                       EvalExprs(fn, env, TargetValues(s.targets[1], s.value), fuel))
      [] s.k = "If" -> ExecIf(fn, env, s, EvalExpr(fn, env, s.test, fuel), fuel)
      [] s.k = "While" -> ExecWhile(fn, env, s, EvalExpr(fn, env, s.test, fuel), fuel)
      [] s.k = "For" /\ s.iter.k = "Call" /\ s.iter.func = Name("range")
            /\ Len(s.iter.args) = 1 ->
            ExecForRange(fn, env, s, EvalExpr(fn, env, s.iter.args[1], fuel), fuel)
      [] s.k = "Continue" -> Outcome("continue", env, None)
      [] s.k = "Pass" -> Goes(env)
      [] OTHER -> Raises(env)

ExecRest(fn, block, i, r, fuel) ==
    IF r.st = "next" THEN ExecBlock(fn, r.env, block, i + 1, fuel) ELSE r

ExecBlock(fn, env, block, i, fuel) ==
    IF i > Len(block) THEN Goes(env)
    ELSE ExecRest(fn, block, i, ExecStmt(fn, env, block[i], fuel), fuel)

\* what the call returns: the returned value, None when the body ends
\* without a return, and no value when an exception leaves the call
Returned(r) ==
    IF r.st = "return" THEN Value(r.value)
    ELSE IF r.st = "next" THEN Value(None)
    ELSE Failed

CallFunction(fn, values, fuel) ==
    IF fuel = 0 THEN Failed
    ELSE Returned(ExecBlock(fn, Bind(<<>>, AllParams(fn), values), fn.body, 1, fuel - 1))

(***************************************************************************)
(* A recursive function is rewritten by one strategy of                    *)
(* rules/recursion_optimization.py; the original and the rewritten         *)
(* definition are then called with the same arguments.                     *)
(***************************************************************************)
MaxN == 5
MaxAcc == 2
MaxFib == 6

n_minus_1 == BinOp(Name("n"), "Sub", Num(1))
acc_times_n == BinOp(Name("acc"), "Mult", Name("n"))
n_is_0 == Compare(Name("n"), "Eq", Num(0))

\* fact3 of tests/test_recursion_more.py: the tail call in the else branch
S_fact_else == S_fact
\* fact2: the tail call right after the conditional
S_fact_after ==
    FunctionDef("fact", <<"n", "acc">>,
                <<If(n_is_0, <<Return(Name("acc"))>>, <<>>),
                  Return(CallOf("fact", <<n_minus_1, acc_times_n>>))>>,
                <<>>)

\* the tail call in the then-branch, the base case in the else branch
S_sum_then ==
    FunctionDef("total", <<"n", "acc">>,
                <<If(Compare(Name("n"), "Gt", Num(0)),
                     <<Return(CallOf("total", <<n_minus_1, BinOp(Name("acc"), "Add", Name("n"))>>))>>,
                     <<Return(Name("acc"))>>)>>,
                <<>>)

\* fib of tests/test_recursion.py, its parameter named p
S_fib(p) ==
    FunctionDef("fib", <<p>>,
                <<If(Compare(Name(p), "LtE", Num(1)), <<Return(Name(p))>>, <<>>),
                  Return(BinOp(CallOf("fib", <<BinOp(Name(p), "Sub", Num(1))>>), "Add",
                               CallOf("fib", <<BinOp(Name(p), "Sub", Num(2))>>)))>>,
                <<>>)

ParamNames == {"n", "a", "b", "i"}

RunInputs ==
    {[fn |-> f, args |-> <<Num(n), Num(acc)>>] :
        f \in {S_fact_else, S_fact_after, S_sum_then}, n \in 0..MaxN, acc \in -MaxAcc..MaxAcc}
    \cup {[fn |-> S_fib(p), args |-> <<Num(n)>>] : p \in ParamNames, n \in -2..MaxFib}

InitRun ==
    /\ \E in \in RunInputs : tree = Module(<<in.fn>>) /\ args = in.args
    /\ orig = tree
    /\ prev = tree
    /\ pc = "parsed"
    /\ remove_unused = FALSE
    /\ root = <<".">>
    /\ fs = <<>>
    /\ used_names = {}
    /\ ret = <<>>

ConvertFibonacci ==
    /\ pc = "parsed"
    /\ tree' = Visit(Transformer("FibonacciToIterative"), tree)
    /\ prev' = tree
    /\ pc' = "FibonacciToIterative"
    /\ UNCHANGED <<orig, remove_unused, root, fs, used_names, args, ret>>

ConvertTailRecursion ==
    /\ pc = "parsed"
    /\ tree' = Visit(Transformer("TailRecursionToIteration"), tree)
    /\ prev' = tree
    /\ pc' = "TailRecursionToIteration"
    /\ UNCHANGED <<orig, remove_unused, root, fs, used_names, args, ret>>

CallOriginal ==
    /\ "original" \notin DOMAIN ret
    /\ ret' = ret @@ ("original" :> CallFunction(orig.body[1], args, MaxFuel))
    /\ UNCHANGED <<tree, orig, prev, pc, remove_unused, root, fs, used_names, args>>

CallRewritten ==
    /\ pc # "parsed"
    /\ "rewritten" \notin DOMAIN ret
    /\ ret' = ret @@ ("rewritten" :> CallFunction(tree.body[1], args, MaxFuel))
    /\ UNCHANGED <<tree, orig, prev, pc, remove_unused, root, fs, used_names, args>>

NextRun ==
    \/ ConvertFibonacci
    \/ ConvertTailRecursion
    \/ CallOriginal
    \/ CallRewritten

SpecRun == InitRun /\ [][NextRun]_vars

(***************************************************************************)
(* TailRecursionToIteration on calls with keywords, on definitions with a  *)
(* keyword-only parameter and on bodies with further statements; the       *)
(* original and the rewritten definition are called as above.              *)
(***************************************************************************)
tail_after(name, call) ==
    <<If(n_is_0, <<Return(Name("acc"))>>, <<>>), Return(Call(Name(name), call.args, call.keywords))>>

Args(as, kws) == [args |-> as, keywords |-> kws]

\* kw_tail of tests/test_recursion_more.py
S_kw_tail ==
    FunctionDef("kw_tail", <<"n", "acc">>,
                tail_after("kw_tail", Args(<<>>, <<Keyword("acc", acc_times_n),
                                                   Keyword("n", n_minus_1)>>)),
                <<>>)
S_kw_mixed ==
    FunctionDef("f", <<"n", "acc">>,
                tail_after("f", Args(<<n_minus_1>>, <<Keyword("acc", acc_times_n)>>)), <<>>)
\* the call leaves acc to the caller's default
S_kw_short ==
    FunctionDef("f", <<"n", "acc">>, tail_after("f", Args(<<n_minus_1>>, <<>>)), <<>>)
\* def f(n, *, acc): the accumulator can only be passed by keyword
S_kwonly ==
    FunctionDefKw("f", <<"n">>, <<"acc">>,
                  tail_after("f", Args(<<n_minus_1>>, <<Keyword("acc", acc_times_n)>>)), <<>>)
S_star ==
    FunctionDef("f", <<"n", "acc">>,
                tail_after("f", Args(<<n_minus_1, Starred(Name("rest"))>>, <<>>)), <<>>)
S_double_star ==
    FunctionDef("f", <<"n", "acc">>,
                tail_after("f", Args(<<n_minus_1>>, <<Keyword(NoName, Name("rest"))>>)), <<>>)

acc_plus_n == BinOp(Name("acc"), "Add", Name("n"))
acc_add_n == Assign(<<Name("acc")>>, acc_plus_n)
plain_call == Args(<<n_minus_1, Name("acc")>>, <<>>)

\* a statement before the conditional, tail call after it
S_stmt_before ==
    FunctionDef("f", <<"n", "acc">>, <<acc_add_n>> \o tail_after("f", plain_call), <<>>)
\* a statement before the conditional, tail call in the else branch
S_stmt_before_else ==
    FunctionDef("f", <<"n", "acc">>,
                <<acc_add_n,
                  If(n_is_0, <<Return(Name("acc"))>>,
                     <<Return(CallOf("f", <<n_minus_1, Name("acc")>>))>>)>>,
                <<>>)
\* an else branch that is no return, tail call after the conditional
S_stmt_in_else ==
    FunctionDef("f", <<"n", "acc">>,
                <<If(n_is_0, <<Return(Name("acc"))>>, <<acc_add_n>>),
                  Return(CallOf("f", <<n_minus_1, Name("acc")>>))>>,
                <<>>)
\* a statement after the tail return
S_stmt_after ==
    FunctionDef("f", <<"n", "acc">>,
                tail_after("f", Args(<<n_minus_1, acc_plus_n>>, <<>>)) \o <<A1>>, <<>>)

BindingStmts == {S_kw_tail, S_kw_mixed, S_kw_short, S_kwonly, S_star, S_double_star}
ExtraStmts == {S_stmt_before, S_stmt_before_else, S_stmt_in_else, S_stmt_after}

TailInputs ==
    {[fn |-> f, args |-> <<Num(n), Num(acc)>>] :
        f \in BindingStmts \cup ExtraStmts \cup {S_fact_after},
        n \in 0..MaxN, acc \in -MaxAcc..MaxAcc}

InitTail ==
    /\ \E in \in TailInputs : tree = Module(<<in.fn>>) /\ args = in.args
    /\ orig = tree
    /\ prev = tree
    /\ pc = "parsed"
    /\ remove_unused = FALSE
    /\ root = <<".">>
    /\ fs = <<>>
    /\ used_names = {}
    /\ ret = <<>>

NextTail ==
    \/ ConvertTailRecursion
    \/ CallOriginal
    \/ CallRewritten

SpecTail == InitTail /\ [][NextTail]_vars

(***************************************************************************)
(* The recursion strategies applied to a parsed module: FibonacciToIterative *)
(* alone, MemoizationDecorator alone, and optimize_recursion.              *)
(***************************************************************************)
MaxRecStmts == 2

fib_of(e) == CallOf("fib", <<e>>)
n_minus(c) == BinOp(Name("n"), "Sub", Num(c))
n_le_1 == Compare(Name("n"), "LtE", Num(1))
fib_sum == Return(BinOp(fib_of(n_minus(1)), "Add", fib_of(n_minus(2))))

\* functions of one parameter that deviate from the Fibonacci shape: in the
\* test, in an argument, by an else branch, by a further statement
S_fib_eq0 ==
    FunctionDef("fib", <<"n">>, <<If(n_is_0, <<Return(Name("n"))>>, <<>>), fib_sum>>, <<>>)
S_fib_n3 ==
    FunctionDef("fib", <<"n">>,
                <<If(n_le_1, <<Return(Name("n"))>>, <<>>),
                  Return(BinOp(fib_of(n_minus(1)), "Add", fib_of(n_minus(3))))>>, <<>>)
S_fib_else ==
    FunctionDef("fib", <<"n">>,
                <<If(n_le_1, <<Return(Name("n"))>>, <<Return(Num(0))>>), fib_sum>>, <<>>)
S_fib_more ==
    FunctionDef("fib", <<"n">>,
                <<If(n_le_1, <<Return(Name("n"))>>, <<>>), fib_sum, Return(Num(0))>>, <<>>)

\* a tail-recursive function whose base-case return holds a self-call
S_tail_self ==
    FunctionDef("g", <<"n">>,
                <<If(n_is_0, <<Return(BinOp(CallOf("g", <<Num(1)>>), "Add", Num(1)))>>,
                     <<Return(CallOf("g", <<n_minus(1)>>))>>)>>, <<>>)

\* self-recursive functions with a side effect before the recursive return
Recursive(name, effect) ==
    FunctionDef(name, <<"n">>,
                <<effect, Return(BinOp(CallOf(name, <<n_minus(1)>>), "Add", Num(1)))>>, <<>>)

S_side_print == Recursive("p", Expr(CallOf("print", <<Name("n")>>)))
S_side_method ==
    Recursive("h", Expr(Call(Attribute(Name("xs"), "append"), <<Name("n")>>, <<>>)))
S_side_sub == Recursive("q", Assign(<<Subscript(Name("d"), Name("n"))>>, Num(1)))
S_side_attr == Recursive("r", AugAssign(Attribute(Name("o"), "count"), "Add", Num(1)))

S_import_functools == Import(<<Alias(<<"functools">>, NoName)>>)
S_import_functools_as == Import(<<Alias(<<"os">>, NoName), Alias(<<"functools">>, "ft")>>)
S_from_functools == ImportFrom(<<"functools">>, <<Alias(<<"lru_cache">>, NoName)>>)

RecStmts ==
    {S_fib("n"), S_fib_eq0, S_fib_n3, S_fib_else, S_fib_more, S_fact, S_tail_self, S_memo,
     S_side_print, S_side_method, S_side_sub, S_side_attr,
     S_import_functools, S_import_functools_as, S_from_functools, A1}

RecPrograms == {Module(b) : b \in SeqsUpTo(RecStmts, MaxRecStmts)}

InitRecursion ==
    /\ tree \in RecPrograms
    /\ orig = tree
    /\ prev = tree
    /\ pc = "parsed"
    /\ remove_unused = FALSE
    /\ root = <<".">>
    /\ fs = <<>>
    /\ Idle

ApplyFibonacciToIterative ==
    /\ pc = "parsed"
    /\ tree' = Visit(Transformer("FibonacciToIterative"), tree)
    /\ prev' = tree
    /\ pc' = "FibonacciToIterative"
    /\ UNCHANGED <<orig, remove_unused, root, fs, used_names, args, ret>>

ApplyMemoizationDecorator ==
    /\ pc = "parsed"
    /\ tree' = Visit(Transformer("MemoizationDecorator"), tree)
    /\ prev' = tree
    /\ pc' = "MemoizationDecorator"
    /\ UNCHANGED <<orig, remove_unused, root, fs, used_names, args, ret>>

ApplyOptimizeRecursion ==
    /\ pc = "parsed"
    /\ tree' = optimize_recursion(tree)
    /\ prev' = tree
    /\ pc' = "optimize_recursion"
    /\ UNCHANGED <<orig, remove_unused, root, fs, used_names, args, ret>>

NextRecursion ==
    \/ ApplyFibonacciToIterative
    \/ ApplyMemoizationDecorator
    \/ ApplyOptimizeRecursion

SpecRecursion == InitRecursion /\ [][NextRecursion]_vars

(***************************************************************************)
(* optimize on modules with a function the recursion transformer memoizes  *)
(***************************************************************************)
MaxMemoStmts == 2

S_call_m == Assign(<<x>>, CallOf("m", <<Num(3)>>))

MemoStmts ==
    {S_memo, S_call_m, S_side_print, S_import_os, S_import_functools, A1}

MemoPrograms == {Module(b) : b \in SeqsUpTo(MemoStmts, MaxMemoStmts)}

InitMemo == \E program \in MemoPrograms : Entered(program)

SpecMemo == InitMemo /\ [][Next]_vars

(***************************************************************************)
(* Properties of optimize                                                  *)
(***************************************************************************)
TopLevelDefs(t) ==
    {t.body[i].name : i \in {j \in DOMAIN t.body : t.body[j].k \in {"FunctionDef", "ClassDef"}}}

\* C1: optimize with remove_unused off returns a tree whose top-level
\* function and class names are those of the input tree.
C1_DefaultKeepsDefinitions ==
    (pc = "done" /\ ~remove_unused) => TopLevelDefs(tree) = TopLevelDefs(orig)

\* C2: optimize never raises for a structurally valid input tree.
C2_NeverRaises == pc # "raised"

\* C3: after the dead-branch eliminator, after the loop simplifier and after
\* the whole pipeline every compound statement still has a non-empty body.
C3_WellFormedAfterPasses ==
    (WellFormed(orig) /\ pc \in {"dead", "loops", "done"}) => WellFormed(tree)

(***************************************************************************)
(* Properties of the single rules                                          *)
(***************************************************************************)
C6_IsCalledDef(n) == n.k = "FunctionDef" /\ n.name \in used_names
C6_Present(w, n) == \E j \in DOMAIN w : w[j].k = "FunctionDef" /\ w[j] = n
C6_AllPresent(before, after) ==
    \A i \in DOMAIN before : C6_IsCalledDef(before[i]) => C6_Present(after, before[i])

\* the nodes of a block that do not lie inside a function definition whose
\* name is not in the CallSet
RECURSIVE C6_Outside(_)
C6_Outside(block) ==
    IF block = <<>> THEN <<>>
    ELSE (IF Head(block).k = "FunctionDef" /\ Head(block).name \notin used_names
          THEN <<>>
          ELSE IF Head(block).k \in {"FunctionDef", "ClassDef"}
          THEN <<Head(block)>> \o C6_Outside(Head(block).body)
          ELSE IF Head(block).k \in {"If", "While", "For"}
          THEN C6_Outside(Head(block).body) \o C6_Outside(Head(block).orelse)
          ELSE <<>>)
         \o C6_Outside(Tail(block))

\* C6 as stated: every function definition whose name is in the CallSet of
\* the tree is still present after UnusedFunctionRemover.
C6_CalledFunctionsKept ==
    pc = "UnusedFunctionRemover" => C6_AllPresent(Walk(prev), Walk(tree))

\* C6 amended: every function definition whose name is in the CallSet and
\* which is not nested inside a function definition the pass removes is
\* still present after UnusedFunctionRemover.
C6_CalledFunctionsKeptUnlessNested ==
    pc = "UnusedFunctionRemover" => C6_AllPresent(C6_Outside(prev.body), Walk(tree))

\* used is called only from caller, which the same invocation removes
C6_Witness ==
    /\ pc = "UnusedFunctionRemover"
    /\ prev.body = <<S_used, FunctionDef("caller", <<>>, <<Return(CallOf("used", <<>>))>>, <<>>)>>
    /\ tree.body = <<S_used>>

C8_BoundName(alias) == IF alias.asname # NoName THEN alias.asname ELSE alias.name[1]
C8_Retained(node, U) == SelectSeq(node.names, LAMBDA alias : C8_BoundName(alias) \in U)
C8_Expected(body, U) ==
    Concat([i \in 1..Len(body) |->
        IF body[i].k \in {"Import", "ImportFrom"}
        THEN IF C8_Retained(body[i], U) = <<>> THEN <<>>
             ELSE <<[body[i] EXCEPT !.names = C8_Retained(body[i], U)]>>
        ELSE <<body[i]>>])

\* C8: UnusedImportRemover keeps exactly the bindings whose bound name (the
\* alias, else the imported name, else the top-level name of a dotted
\* import) is in the UsageSet, in their order, and drops a statement none
\* of whose bindings survive.
C8_ImportsFollowUsage ==
    pc = "UnusedImportRemover" => tree.body = C8_Expected(prev.body, used_names)

C9_IsPair(e) == e.k = "BinOp" /\ e.left.k = "Constant" /\ e.right.k = "Constant"
C9_Result(e) ==
    IF C9_IsPair(e) /\ PyBinOp(e.op, e.left, e.right).ok
    THEN PyBinOp(e.op, e.left, e.right).value
    ELSE e
C9_IsBinOpAssign(stmt) == stmt.k = "Assign" /\ stmt.value.k = "BinOp"

\* C9: ConstantFolder replaces a binary operation on two literals by the
\* literal of its value, returns one with a non-literal operand or a failing
\* evaluation unchanged, and returns a tree without a literal pair unchanged.
C9_FoldsLiteralPairs ==
    pc = "ConstantFolder" =>
        /\ Len(tree.body) = Len(prev.body)
        /\ \A i \in DOMAIN prev.body :
              C9_IsBinOpAssign(prev.body[i]) =>
                  tree.body[i] = [prev.body[i] EXCEPT !.value = C9_Result(@)]
        /\ ~AnyNode(Walk(prev), C9_IsPair) => tree = prev

\* 2 + 3 folded to 5 next to a division by zero and y + 3, both left alone
C9_Witness ==
    /\ pc = "ConstantFolder"
    /\ prev.body = << Assign(<<x>>, BinOp(Num(2), "Add", Num(3))),
                      Assign(<<x>>, BinOp(Num(1), "FloorDiv", Num(0))),
                      Assign(<<x>>, BinOp(y, "Add", Num(3))) >>
    /\ tree.body = << Assign(<<x>>, Num(5)),
                      Assign(<<x>>, BinOp(Num(1), "FloorDiv", Num(0))),
                      Assign(<<x>>, BinOp(y, "Add", Num(3))) >>

\* the block the claim describes: literal-True conditionals replaced by
\* their then-branch, literal-False ones by their else-branch, in place
RECURSIVE C10_Spliced(_)
C10_SplicedStmt(stmt) ==
    IF stmt.k = "If" /\ IsTrue(stmt.test) THEN C10_Spliced(stmt.body)
    ELSE IF stmt.k = "If" /\ IsFalse(stmt.test) THEN C10_Spliced(stmt.orelse)
    ELSE IF stmt.k \in {"If", "While", "For"}
    THEN <<[stmt EXCEPT !.body = C10_Spliced(@), !.orelse = C10_Spliced(@)]>>
    ELSE IF stmt.k \in {"FunctionDef", "ClassDef"}
    THEN <<[stmt EXCEPT !.body = C10_Spliced(@)]>>
    ELSE <<stmt>>
C10_Spliced(block) == Concat([i \in 1..Len(block) |-> C10_SplicedStmt(block[i])])

\* C10: DeadCodeRemover splices the then-branch of `if True`, the
\* else-branch of `if False` at the conditional's position, the statements
\* around it unchanged, and leaves every other conditional as it is.
C10_SplicesLiteralBranches ==
    pc = "DeadCodeRemover" => tree.body = C10_Spliced(prev.body)

C10_Witness ==
    /\ pc = "DeadCodeRemover"
    /\ prev.body = <<A2, If(False, <<A1>>, <<B1, A2>>), If(Num(1), <<A1>>, <<B1>>)>>
    /\ tree.body = <<A2, B1, A2, If(Num(1), <<A1>>, <<B1>>)>>

(***************************************************************************)
(* Properties of the project-wide pruning                                  *)
(***************************************************************************)
C7_IsExported(stmt, body) == stmt.k = "FunctionDef" /\ stmt.name \in ModuleExports(body)
C7_Kept(stmt, body) == \E j \in DOMAIN body : body[j].k = stmt.k /\ body[j] = stmt

\* C7: whatever the root and the files found, a top-level function named in
\* the `__all__` list of the module being pruned is retained.
C7_ExportsRetained ==
    pc = "pruned" =>
        \A i \in DOMAIN prev.body :
            C7_IsExported(prev.body[i], prev.body) => C7_Kept(prev.body[i], tree.body)

(***************************************************************************)
(* Properties of the rewritten functions                                   *)
(***************************************************************************)
BothCalled == {"original", "rewritten"} \subseteq DOMAIN ret
IsLoop(fn) == Len(fn.body) = 1 /\ fn.body[1].k = "While"

\* C4: the loop TailRecursionToIteration generates for the accumulator
\* function (tail call in the else branch or after the conditional) returns
\* what the recursive definition returns, for n in 0..MaxN and every acc.
C4_TailLoopSameResult ==
    (/\ pc = "TailRecursionToIteration" /\ BothCalled /\ IsLoop(tree.body[1])
     /\ orig.body[1] \in {S_fact_else, S_fact_after})
        => ret["original"].ok /\ ret["rewritten"] = ret["original"]

\* fact(5, 1) is 120 before and after the rewrite
C4_Witness ==
    /\ pc = "TailRecursionToIteration" /\ BothCalled /\ IsLoop(tree.body[1])
    /\ orig.body[1] = S_fact_after
    /\ args = <<Num(5), Num(1)>>
    /\ ret["rewritten"] = Value(Num(120))

\* C5: the function FibonacciToIterative produces returns what the
\* recursive definition returns, for negative inputs, 0, 1 and 10 and
\* whatever the parameter is named.
C5_FibonacciSameResult ==
    (pc = "FibonacciToIterative" /\ BothCalled) => ret["rewritten"] = ret["original"]

\* ---- C11: BooleanExpressionSimplifier.visit_BoolOp against its reference ----
C11_IsIdentity(e, v) == IF e.op = "And" THEN IsTrue(v) ELSE IsFalse(v)
C11_IsAbsorbing(e, v) == IF e.op = "And" THEN IsFalse(v) ELSE IsTrue(v)
C11_Kept(e, i) == ~C11_IsIdentity(e, e.values[i])

RECURSIVE C11_KeptFrom(_, _)
C11_KeptFrom(e, i) ==
    IF i > Len(e.values) THEN <<>>
    ELSE (IF C11_Kept(e, i) THEN <<e.values[i]>> ELSE <<>>) \o C11_KeptFrom(e, i + 1)

C11_Reduce(e, kept) ==
    IF kept = <<>> THEN (IF e.op = "And" THEN True ELSE False)
    ELSE IF Len(kept) = 1 THEN kept[1]
    ELSE [e EXCEPT !.values = kept]

C11_Reference(e) ==
    IF \E i \in DOMAIN e.values : C11_IsAbsorbing(e, e.values[i])
    THEN (IF e.op = "And" THEN False ELSE True)
    ELSE C11_Reduce(e, C11_KeptFrom(e, 1))

C11_IsChainAssign(stmt) ==
    /\ stmt.k = "Assign"
    /\ stmt.value.k = "BoolOp"
    /\ \A i \in DOMAIN stmt.value.values : stmt.value.values[i].k \in {"Name", "Constant"}

\* C11: after BooleanExpressionSimplifier every AND/OR chain of names and
\* literals equals the reference: the absorbing literal gives that literal,
\* otherwise only the identity literals are dropped and every other operand
\* (a name, 0, None, a string) stays in its position; an empty result is the
\* identity literal and a single operand replaces the chain.
C11_BoolOpFoldsIdentities ==
    pc = "BooleanExpressionSimplifier" =>
        /\ Len(tree.body) = Len(prev.body)
        /\ \A i \in DOMAIN prev.body :
              C11_IsChainAssign(prev.body[i]) =>
                  tree.body[i] = [prev.body[i] EXCEPT !.value = C11_Reference(@)]

\* ---- C12: double negation ----
C12_IsDoubleNegation(e) ==
    /\ e.k = "UnaryOp" /\ e.op = "Not"
    /\ e.operand.k = "UnaryOp" /\ e.operand.op = "Not"

C12_HasDoubleNegation(stmt) ==
    \/ stmt.k \in {"If", "While"} /\ C12_IsDoubleNegation(stmt.test)
    \/ stmt.k \in {"Assign", "Return"} /\ C12_IsDoubleNegation(stmt.value)

C12_Stripped(stmt) ==
    IF ~C12_HasDoubleNegation(stmt) THEN stmt
    ELSE IF stmt.k \in {"If", "While"} THEN [stmt EXCEPT !.test = @.operand.operand]
    ELSE [stmt EXCEPT !.value = @.operand.operand]

C12_Expected(stmt) ==
    IF stmt.k = "FunctionDef"
    THEN [stmt EXCEPT !.body = [i \in DOMAIN stmt.body |-> C12_Stripped(stmt.body[i])]]
    ELSE C12_Stripped(stmt)

C12_Concerns(stmt) ==
    \/ C12_HasDoubleNegation(stmt)
    \/ stmt.k = "FunctionDef" /\ \E i \in DOMAIN stmt.body : C12_HasDoubleNegation(stmt.body[i])

\* C12: optimize_conditionals rewrites `not (not x)` to exactly x in the test
\* of a conditional or a loop, in an assignment and in a return value, also
\* when x is an AND/OR chain.
C12_DoubleNegationRemoved ==
    pc = "optimize_conditionals" =>
        \A i \in DOMAIN prev.body :
            C12_Concerns(prev.body[i]) =>
                /\ Len(tree.body) = Len(prev.body)
                /\ tree.body[i] = C12_Expected(prev.body[i])

\* ---- C13: project-wide pruning removes exactly the unreferenced top-level definitions ----
C13_Referenced(stmt, names) ==
    stmt.k \in {"FunctionDef", "ClassDef"} => stmt.name \in names

RECURSIVE C13_Expected(_, _)
C13_Expected(block, names) ==
    IF block = <<>> THEN <<>>
    ELSE (IF C13_Referenced(Head(block), names) THEN <<Head(block)>> ELSE <<>>)
            \o C13_Expected(Tail(block), names)

\* C13: optimize_remove_unused_apis removes a top-level function or class
\* definition exactly when its name is neither in the project-wide set nor in
\* the UsageSet of the pruned tree; every other statement stays unchanged
\* and in order.
C13_RemovesExactlyUnreferenced ==
    pc = "pruned" =>
        tree.body = C13_Expected(prev.body, used_names \cup collect_used_names(prev))

\* ---- C14: local-mode pruning leaves classes alone ----
C14_IsClass(stmt) == stmt.k = "ClassDef"

\* C14: UnusedFunctionRemover applied to a module leaves every class
\* definition unchanged, with all methods of its body, whether or not the
\* method names are in the CallSet.
C14_ClassesUnchanged ==
    pc = "UnusedFunctionRemover" =>
        SelectSeq(tree.body, C14_IsClass) = SelectSeq(prev.body, C14_IsClass)

\* C15: with the tail call in the then-branch and the base return in the
\* else branch, the loop TailRecursionToIteration generates returns what the
\* recursive definition returns, for n in 0..MaxN and every acc.
C15_ThenBranchSameResult ==
    (/\ pc = "TailRecursionToIteration" /\ BothCalled /\ IsLoop(tree.body[1])
     /\ orig.body[1] = S_sum_then)
        => ret["original"].ok /\ ret["rewritten"] = ret["original"]

(***************************************************************************)
(* Properties of the recursion strategies                                  *)
(***************************************************************************)
\* the statement of the result that stands for statement i of the input:
\* optimize_recursion inserts at most an import in front
Offset == Len(tree.body) - Len(prev.body)
Decorated(before, after) == Len(after.decorator_list) > Len(before.decorator_list)

C16_OneStrategy(f, out) ==
    /\ out.body # f.body => ~Decorated(f, out)
    /\ FibonacciToIterative_convert(f) # <<f>>
          => out.body = FibonacciToIterative_convert(f)[1].body

\* C16: in optimize_recursion a function whose body was replaced by the
\* Fibonacci or the tail-recursion rewrite does not also receive the caching
\* decorator, and a function the Fibonacci rewrite replaced is not rewritten
\* again by the tail-recursion strategy.
C16_AtMostOneStrategy ==
    pc = "optimize_recursion" =>
        \A i \in DOMAIN prev.body :
            prev.body[i].k = "FunctionDef" => C16_OneStrategy(prev.body[i], tree.body[i + Offset])

C17_Denylist ==
    {"print", "input", "open", "append", "pop", "remove", "clear", "update", "add", "write"}

C17_IsSignal(n) ==
    \/ /\ n.k = "Call"
       /\ \/ n.func.k = "Name" /\ n.func.id \in C17_Denylist
          \/ n.func.k = "Attribute" /\ n.func.attr \in C17_Denylist
    \/ n.k = "Assign" /\ \E j \in DOMAIN n.targets : n.targets[j].k \in {"Attribute", "Subscript"}
    \/ n.k = "AugAssign" /\ n.target.k \in {"Attribute", "Subscript"}

C17_SelfRecursive(f, w) == \E j \in DOMAIN w : IsSelfCall(w[j], f.name)

C17_Eligible(f, w) == C17_SelfRecursive(f, w) /\ ~AnyNode(w, C17_IsSignal)

\* C17: MemoizationDecorator attaches the caching decorator only to a
\* self-recursive function without a side-effect signal: no call of a
\* denylisted operation, by name or as a method of an object, and no
\* assignment or augmented assignment to an attribute or a subscript.
C17_NoMemoWithSideEffects ==
    pc = "MemoizationDecorator" =>
        \A i \in DOMAIN prev.body :
            (prev.body[i].k = "FunctionDef" /\ Decorated(prev.body[i], tree.body[i]))
                => C17_Eligible(prev.body[i], Walk(prev.body[i]))

C18_ExactShape(f, p) ==
    /\ f.params = <<p>>
    /\ f.body = << If(Compare(Name(p), "LtE", Num(1)), <<Return(Name(p))>>, <<>>),
                   Return(BinOp(CallOf(f.name, <<BinOp(Name(p), "Sub", Num(1))>>), "Add",
                                CallOf(f.name, <<BinOp(Name(p), "Sub", Num(2))>>))) >>

\* C18: FibonacciToIterative returns unchanged every function of one
\* parameter that deviates from the shape `if p <= 1: return p` followed by
\* `return f(p-1) + f(p-2)`: in the test, in the arguments of the calls, by
\* an else branch or by further statements.
C18_OnlyExactShapeRewritten ==
    pc = "FibonacciToIterative" =>
        \A i \in DOMAIN prev.body :
            (/\ prev.body[i].k = "FunctionDef"
             /\ Len(prev.body[i].params) = 1
             /\ ~C18_ExactShape(prev.body[i], prev.body[i].params[1]))
                => tree.body[i] = prev.body[i]

C19_IsFunctoolsImport(stmt) ==
    \/ stmt.k = "Import" /\ \E j \in DOMAIN stmt.names : stmt.names[j].name = <<"functools">>
    \/ stmt.k = "ImportFrom" /\ stmt.module = <<"functools">>

C19_Imports(t) == \E i \in DOMAIN t.body : C19_IsFunctoolsImport(t.body[i])

C19_NewlyMemoized ==
    \E i \in DOMAIN prev.body :
        prev.body[i].k = "FunctionDef" /\ Decorated(prev.body[i], tree.body[i + Offset])

\* C19: after optimize_recursion, if a function was newly given the caching
\* decorator the top-level statements contain a functools import; the pass
\* inserts at most one `import functools`, at position 0, and none when the
\* module already imports functools in some form or no function was
\* memoized: then the top-level sequence gains no statement.
C19_ImportEnsuredOnce ==
    pc = "optimize_recursion" =>
        /\ Offset \in {0, 1}
        /\ C19_NewlyMemoized => C19_Imports(tree)
        /\ Offset = 1 => /\ tree.body[1] = Import(<<Alias(<<"functools">>, NoName)>>)
                         /\ C19_NewlyMemoized
                         /\ ~C19_Imports(prev)
        /\ (C19_Imports(prev) \/ ~C19_NewlyMemoized) => Offset = 0

\* `x = 1` and the recursive m: the import is put in front, m is decorated
C19_Witness ==
    /\ pc = "optimize_recursion"
    /\ prev.body = <<A1, S_memo>>
    /\ tree.body[1] = S_import_functools
    /\ tree.body[2] = A1
    /\ tree.body[3].decorator_list = <<lru_cache_decorator>>

(***************************************************************************)
(* Properties of the order of the passes                                   *)
(***************************************************************************)
C20_IsMemoized(stmt) == stmt.k = "FunctionDef" /\ HasLruCache(stmt)
C20_Memoized(t) == \E i \in DOMAIN t.body : C20_IsMemoized(t.body[i])
C20_Inserted(t) == \E i \in DOMAIN t.body : t.body[i] = S_import_functools

MaxFoldStmts == 2

Add(l, r) == BinOp(l, "Add", r)

NestedStmts ==
    { Assign(<<y>>, BinOp(Add(Num(1), Num(2)), "Mult", Num(3))),
      Assign(<<y>>, Add(Add(Num(1), Num(2)), Num(3))),
      Assign(<<y>>, Add(Num(1), Add(Num(2), Num(3)))),
      Assign(<<y>>, BinOp(Add(Num(1), Num(2)), "Mult", Add(Num(3), Num(4)))),
      Assign(<<y>>, Add(Add(x, Num(1)), Num(2))),
      Assign(<<y>>, Add(BinOp(Num(1), "FloorDiv", Num(0)), Num(1))),
      Assign(<<y>>, Add(Num(2), Num(3))),
      Expr(CallOf("f", <<Add(Add(Num(1), Num(2)), Num(3))>>)),
      A1 }

FoldPrograms == {Module(b) : b \in SeqsUpTo(NestedStmts, MaxFoldStmts)}

InitFold ==
    /\ tree \in FoldPrograms
    /\ orig = tree
    /\ prev = tree
    /\ pc = "parsed"
    /\ remove_unused = FALSE
    /\ root = <<".">>
    /\ fs = <<>>
    /\ Idle

NextFold == ApplyConstantFolder

SpecFold == InitFold /\ [][NextFold]_vars

(***************************************************************************)
(* LoopOptimizer alone and optimize_loops applied to a parsed module       *)
(***************************************************************************)
MaxLoopStmts == 3

xs == Name("xs")
EmptyLoop == While(True, <<Pass>>, <<>>)

LoopStmts ==
    { For(Name("i"), xs, <<A1>>, <<>>),
      For(Name("i"), xs, <<A1>>, <<B1>>),
      For(Name("i"), xs, <<EmptyLoop>>, <<>>),
      For(Name("i"), xs, <<EmptyLoop>>, <<B1>>),
      For(Name("i"), Call(Name("range"), <<Call(Name("len"), <<xs>>, <<>>)>>, <<>>),
          <<Expr(Subscript(xs, Name("i")))>>, <<>>),
      While(Name("c"), <<EmptyLoop>>, <<>>),
      While(Name("c"), <<A1>>, <<B1>>),
      While(Name("c"), <<Pass>>, <<>>),
      EmptyLoop,
      While(True, <<Pass>>, <<B1>>),
      While(True, <<A1>>, <<>>),
      While(True, <<Pass, Pass>>, <<>>),
      While(False, <<A1>>, <<>>),
      While(False, <<A1>>, <<B1, A2>>),
      While(Num(0), <<A1>>, <<>>),
      While(Num(1), <<Pass>>, <<>>) }

r == Name("r")
append_to(name, values) == Expr(Call(Attribute(Name(name), "append"), values, <<>>))
v_times_2 == BinOp(Name("v"), "Mult", Num(2))

S_init == Assign(<<r>>, List(<<>>))
S_loop == For(Name("v"), xs, <<append_to("r", <<v_times_2>>)>>, <<>>)
S_loop_else == For(Name("v"), xs, <<append_to("r", <<v_times_2>>)>>, <<B1>>)
\* the idiom in the body of a function
S_in_function == FunctionDef("f", <<"xs">>, <<S_init, S_loop, Return(r)>>, <<>>)

AccumStmts == {S_init, S_loop, S_loop_else, S_in_function, A1}

\* the first and the second statement of the idiom and their deviations
Inits ==
    { S_init,
      Assign(<<r, Name("q")>>, List(<<>>)),
      Assign(<<Attribute(Name("o"), "r")>>, List(<<>>)),
      Assign(<<r>>, List(<<Num(1)>>)) }

Loops ==
    { S_loop,
      S_loop_else,
      For(Name("v"), xs, <<append_to("r", <<v_times_2>>), A1>>, <<>>),
      For(Name("v"), xs, <<append_to("q", <<v_times_2>>)>>, <<>>),
      For(Name("v"), xs, <<append_to("r", <<v_times_2, Num(1)>>)>>, <<>>),
      For(Name("v"), xs, <<append_to("r", <<>>)>>, <<>>) }

LoopPrograms ==
    {Module(<<s>>) : s \in LoopStmts}
        \cup {Module(<<i, l>>) : i \in Inits, l \in Loops}
        \cup {Module(b) : b \in SeqsUpTo(AccumStmts, MaxLoopStmts)}

InitLoops ==
    /\ tree \in LoopPrograms
    /\ orig = tree
    /\ prev = tree
    /\ pc = "parsed"
    /\ remove_unused = FALSE
    /\ root = <<".">>
    /\ fs = <<>>
    /\ Idle

ApplyLoopOptimizer ==
    /\ pc = "parsed"
    /\ tree' = Visit(Transformer("LoopOptimizer"), tree)
    /\ prev' = tree
    /\ pc' = "LoopOptimizer"
    /\ UNCHANGED <<orig, remove_unused, root, fs, used_names, args, ret>>

ApplyOptimizeLoops ==
    /\ pc = "parsed"
    /\ tree' = optimize_loops(tree)
    /\ prev' = tree
    /\ pc' = "optimize_loops"
    /\ UNCHANGED <<orig, remove_unused, root, fs, used_names, args, ret>>

NextLoops ==
    \/ ApplyLoopOptimizer
    \/ ApplyOptimizeLoops

SpecLoops == InitLoops /\ [][NextLoops]_vars

(***************************************************************************)
(* Properties of the project-wide scan                                     *)
(***************************************************************************)
C21_Readable(f) == EndsWithPy(f.name) /\ f.ok
C21_Contribution(f) == collect_used_names(f.body) \cup ModuleExports(f.body.body)

\* C21: for every form of the root, the set _collect_project_used_names
\* returns holds the identifier names and the `__all__` entries of every
\* readable, parsable .py file under the root, at any depth.
C21_ScanCoversEveryFile ==
    pc = "pruned" =>
        \A i \in DOMAIN fs :
            C21_Readable(fs[i]) => C21_Contribution(fs[i]) \subseteq used_names

C22_Ok(f) == f.ok

\* C22: a file that cannot be read or parsed is skipped and the scan goes
\* on: the set is the one obtained with the failing files absent.
C22_FailingFileIsolated ==
    pc = "pruned" =>
        used_names = collect_project_used_names(root, SelectSeq(fs, C22_Ok))

C22_Witness ==
    /\ pc = "pruned"
    /\ \E i, j \in DOMAIN fs :
          /\ i < j
          /\ ~fs[i].ok
          /\ fs[j].ok
          /\ C21_Contribution(fs[j]) # {}
          /\ C21_Contribution(fs[j]) \subseteq used_names
          /\ ~(C21_Contribution(fs[j]) \subseteq collect_used_names(prev))


(***************************************************************************)
(* Properties of the folding of nested expressions                         *)
(***************************************************************************)
C23_Foldable(e) == C9_IsPair(e) /\ PyBinOp(e.op, e.left, e.right).ok

\* C23: one ConstantFolder pass collapses nested constant expressions
\* completely: afterwards no binary operation is left whose two operands are
\* literals and whose evaluation would succeed.
C23_NestedConstantsCollapse ==
    pc = "ConstantFolder" => ~AnyNode(Walk(tree), C23_Foldable)


(***************************************************************************)
(* Properties of ConditionalOptimizer                                      *)
(***************************************************************************)
C24_IsIf(stmt) == stmt.k = "If"
C24_Flat(stmt) == ~AnyNode(Walk(Module(stmt.body \o stmt.orelse)), C24_IsIf)
C24_Duplicate(stmt) == stmt.orelse # <<>> /\ stmt.body = stmt.orelse

\* C24: ConditionalOptimizer replaces a conditional whose then-branch and
\* else-branch are identical statement sequences, two `pass` branches
\* included, by one copy of the sequence; a conditional whose branches differ
\* or that has no else branch stays a conditional.
C24_DuplicateBranchesFused ==
    (/\ pc = "ConditionalOptimizer"
     /\ C24_IsIf(prev.body[1])
     /\ C24_Flat(prev.body[1]))
        => IF C24_Duplicate(prev.body[1])
           THEN tree.body = prev.body[1].body
           ELSE Len(tree.body) = 1 /\ C24_IsIf(tree.body[1])


(***************************************************************************)
(* Properties of the loop rules                                            *)
(***************************************************************************)
C25_IsLoop(stmt) == stmt.k \in {"For", "While"}

\* the three deletions, applied to a loop whose children are processed
C25_Delete(stmt) ==
    IF stmt.body = <<>> /\ stmt.orelse = <<>> THEN <<>>
    ELSE IF stmt.k = "While" /\ IsTrue(stmt.test) /\ stmt.body = <<Pass>> THEN <<>>
    ELSE IF stmt.k = "While" /\ IsFalse(stmt.test) THEN stmt.orelse
    ELSE <<stmt>>

RECURSIVE C25_Block(_)
C25_Stmt(stmt) ==
    IF C25_IsLoop(stmt)
    THEN C25_Delete([stmt EXCEPT !.body = C25_Block(@), !.orelse = C25_Block(@)])
    ELSE <<stmt>>
C25_Block(block) ==
    IF block = <<>> THEN <<>> ELSE C25_Stmt(Head(block)) \o C25_Block(Tail(block))

\* C25: LoopOptimizer deletes a for or while loop whose body is empty after
\* its children were processed and that has no else clause, deletes
\* `while True: pass`, replaces `while False` by its else clause, and
\* returns every other loop with its header, body and else clause.
C25_ExactlyThreeDeletions ==
    (pc = "LoopOptimizer" /\ Len(prev.body) = 1 /\ C25_IsLoop(prev.body[1]))
        => tree.body = C25_Block(prev.body)


\* the accumulation idiom: `name = []` followed by a for loop without else
\* whose whole body is `name.append(expr)`
C26_IsIdiom(stmt1, stmt2) ==
    /\ stmt1.k = "Assign"
    /\ Len(stmt1.targets) = 1
    /\ stmt1.targets[1].k = "Name"
    /\ stmt1.value = List(<<>>)
    /\ stmt2.k = "For"
    /\ stmt2.orelse = <<>>
    /\ Len(stmt2.body) = 1
    /\ stmt2.body[1].k = "Expr"
    /\ stmt2.body[1].value.k = "Call"
    /\ stmt2.body[1].value.func = Attribute(stmt1.targets[1], "append")
    /\ Len(stmt2.body[1].value.args) = 1

C26_Comprehension(stmt1, stmt2) ==
    Assign(stmt1.targets, ListComp(stmt2.body[1].value.args[1], stmt2.target, stmt2.iter))

RECURSIVE C26_Fused(_)
C26_Fused(block) ==
    IF block = <<>> THEN <<>>
    ELSE IF Len(block) >= 2 /\ C26_IsIdiom(block[1], block[2])
         THEN <<C26_Comprehension(block[1], block[2])>> \o C26_Fused(SubSeq(block, 3, Len(block)))
         ELSE <<IF block[1].k = "FunctionDef"
                THEN [block[1] EXCEPT !.body = C26_Fused(@)]
                ELSE block[1]>> \o C26_Fused(Tail(block))

C26_IsForElse(n) == n.k = "For" /\ n.orelse # <<>>

\* C26: optimize_loops replaces every `name = []` immediately followed by
\* `for target in iterable: name.append(expr)`, at the module top level or in
\* a function body, by `name = [expr for target in iterable]` in the place
\* of the first statement, and keeps all other statements in their order.
C26_AccumulationFused ==
    (pc = "optimize_loops" /\ ~AnyNode(Walk(prev), C26_IsForElse))
        => tree.body = C26_Fused(Visit(Transformer("LoopOptimizer"), prev).body)

C27_Deviates(stmt1, stmt2) ==
    stmt1.k = "Assign" /\ stmt2.k = "For" /\ ~C26_IsIdiom(stmt1, stmt2)

C27_ElseKept(before, after) ==
    \A i \in DOMAIN before :
        C26_IsForElse(before[i]) =>
            \E j \in DOMAIN after : C26_IsForElse(after[j]) /\ after[j].orelse = before[i].orelse

\* C27: a pair that deviates from the accumulation idiom (several targets,
\* a target that is no name, a non-empty list, a longer loop body, an append
\* on another name or with other than one argument, a loop with an else
\* clause) is left as it is, and the statements of a for-else clause are
\* still in the tree after optimize_loops.
C27_DeviationsUntouched ==
    pc = "optimize_loops" =>
        /\ (Len(prev.body) = 2 /\ C27_Deviates(prev.body[1], prev.body[2]))
              => tree.body = prev.body
        /\ C27_ElseKept(Walk(prev), Walk(tree))


(***************************************************************************)
(* Properties of the tail-recursion rewrite                                *)
(***************************************************************************)
\* the tail call of a definition whose last statement but for trailing ones
\* is `return f(...)` right after the conditional
C28_TailCall(fn) == fn.body[2].value

C28_Unpacks(call) ==
    \/ \E i \in DOMAIN call.args : call.args[i].k = "Starred"
    \/ \E i \in DOMAIN call.keywords : call.keywords[i].arg = NoName

C28_Named(call, pname) == {i \in DOMAIN call.keywords : call.keywords[i].arg = pname}

\* positional first, then the keyword named like the parameter, then the
\* parameter itself
C28_NewValue(fn, call, idx) ==
    IF idx <= Len(fn.params) /\ idx <= Len(call.args) THEN call.args[idx]
    ELSE IF C28_Named(call, AllParams(fn)[idx]) # {}
         THEN call.keywords[CHOOSE i \in C28_Named(call, AllParams(fn)[idx]) : TRUE].value
         ELSE Name(AllParams(fn)[idx])

C28_Assignment(fn, call) ==
    Assign(<<Tuple([idx \in 1..Len(AllParams(fn)) |-> Name(AllParams(fn)[idx])])>>,
           Tuple([idx \in 1..Len(AllParams(fn)) |-> C28_NewValue(fn, call, idx)]))

C28_Concerns ==
    pc = "TailRecursionToIteration" /\ orig.body[1] \in BindingStmts \cup {S_fact_after}

\* C28: in the rewritten loop every parameter receives the call's positional
\* argument at its index, else the keyword argument named like it, else its
\* current value, all in one simultaneous assignment, so that the loop
\* returns what the recursive definition returns; a call with a starred
\* argument or `**` unpacking leaves the function unchanged.
C28_ArgumentBinding ==
    C28_Concerns =>
        IF C28_Unpacks(C28_TailCall(prev.body[1]))
        THEN tree = prev
        ELSE /\ IsLoop(tree.body[1])
             /\ tree.body[1].body[1].body[2]
                   = C28_Assignment(prev.body[1], C28_TailCall(prev.body[1]))
             /\ (BothCalled /\ ret["original"].ok) => ret["rewritten"] = ret["original"]

\* the body is the matched conditional alone, or the conditional without
\* else branch followed by the tail-call return
C29_Solely(fn) ==
    \/ Len(fn.body) = 1 /\ TailCase(fn, 1) \in {"A", "B"}
    \/ Len(fn.body) = 2 /\ TailCase(fn, 1) = "C" /\ fn.body[1].orelse = <<>>

\* C29: the rewrite fires only on a body that consists of the matched
\* conditional (and the tail-call return right after it); a function with a
\* statement before the conditional, after the tail return or in a
\* non-return else branch is left unchanged, and returns what it returned.
C29_NoStatementLost ==
    pc = "TailRecursionToIteration" =>
        /\ IsLoop(tree.body[1]) => C29_Solely(prev.body[1])
        /\ (BothCalled /\ orig.body[1] \in ExtraStmts)
              => ret["rewritten"] = ret["original"]


(***************************************************************************)
(* Properties of the name the caching decorator refers to                  *)
(***************************************************************************)
C30_BindsFunctools(t) ==
    \E i \in DOMAIN t.body :
        /\ t.body[i].k = "Import"
        /\ \E j \in DOMAIN t.body[i].names :
              t.body[i].names[j] = Alias(<<"functools">>, NoName)

\* C30: after optimize_recursion every function the pass decorated with
\* `functools.lru_cache(None)` is in a module whose top-level statements
\* hold `import functools` without alias, also when the input had
\* `import functools as ft` or `from functools import reduce`.
C30_DecoratorNameBound ==
    (pc = "optimize_recursion" /\ C19_NewlyMemoized) => C30_BindsFunctools(tree)

====
